---------------------------- MODULE Spec2Model ----------------------------
(***************************************************************************)
(* Model of the 1D LUT data object of OpenColorIO (Lut1DOpData.cpp):       *)
(* the 3-by-1D sample array, validation, finalization (array preparation   *)
(* for inversion, channel normalisation, cache id), cloning, inversion and *)
(* composition.                                                            *)
(*                                                                         *)
(* Floats are fixed-point integers in units of 1e-5 (One == 1.0) plus the  *)
(* three special values NaN, PosInf and NegInf; every comparison goes      *)
(* through FLt/FGt/FEq, which are false on NaN as in IEEE 754.             *)
(*                                                                         *)
(* The half type is modelled as a binary float of HalfExpBits exponent     *)
(* bits and HalfManBits mantissa bits plus a sign bit.  Every row number   *)
(* the code writes as a literal (15360, 31743, 31744, 32768, 64511, 64512, *)
(* 65536) is derived here from the two widths; with widths 5 and 10 the    *)
(* derived rows are exactly the code's literals.                           *)
(***************************************************************************)
EXTENDS Integers, Sequences, FiniteSets, TLC

VARIABLES heap,    \* object id -> Lut1DOpData object (or NoObj)
          A,       \* handle (object id) of the first LUT
          B,       \* handle (object id) of the second LUT, 0 when null
          op,      \* name of the last operation performed
          tgt,     \* handle of the object the last operation was called on
          err,     \* exception thrown by the last operation, "" when none
          arg,     \* arguments of the last operation
          ret,     \* value returned by the last operation
          edits,   \* number of mutator calls made so far
          streak,  \* number of consecutive successful finalize() calls on tgt
          calls,   \* thread -> position and locals of its finalize() call
          mutex    \* thread that holds m_mutex of the LUT of A, 0 when free

vars == <<heap, A, B, op, tgt, arg, err, ret, edits, streak, calls, mutex>>

-----------------------------------------------------------------------------
(* Bounds of the model *)

HalfExpBits == 2
HalfManBits == 1
MaxLen == 3
MaxEdits == 1
MaxObjs == 3
\* widths of the integer bit depths of 8, 10, 12, 14 and 16 bits
Uint8Bits == 1
Uint10Bits == 2
Uint12Bits == 3
Uint14Bits == 4
Uint16Bits == 5
\* the longest evaluator chain handed to ComposeVec
MaxChain == 2

-----------------------------------------------------------------------------
(* Floats *)

One == 100000
NaN == 2000000001
PosInf == 2000000000
NegInf == -2000000000

IsNan(v) == v = NaN

FLt(a, b) == a # NaN /\ b # NaN /\ a < b
FGt(a, b) == a # NaN /\ b # NaN /\ a > b
FEq(a, b) == a # NaN /\ b # NaN /\ a = b
FNe(a, b) == ~FEq(a, b)

FNeg(v) == IF v = NaN THEN NaN ELSE 0 - v

\* float multiplication by an integer factor, as used by scale()
FMul(v, f) ==
    IF v = NaN THEN NaN
    ELSE IF v = PosInf \/ v = NegInf
         THEN IF f = 0 THEN NaN
              ELSE IF f > 0 THEN v ELSE 0 - v
    ELSE v * f

RECURSIVE Pow2(_)
Pow2(n) == IF n <= 0 THEN 1 ELSE 2 * Pow2(n - 1)

-----------------------------------------------------------------------------
(* The half format *)

HalfBias == Pow2(HalfExpBits - 1) - 1
HALF_DOMAIN_REQUIRED_ENTRIES == Pow2(HalfExpBits + HalfManBits + 1)
posInfRow == (Pow2(HalfExpBits) - 1) * Pow2(HalfManBits)
oneRow == HalfBias * Pow2(HalfManBits)
negZeroRow == Pow2(HalfExpBits + HalfManBits)
negInfRow == negZeroRow + posInfRow
posMaxRow == posInfRow - 1
negMaxRow == negInfRow - 1

\* static_cast<float>(half) of the half with the given bit pattern
HalfToFloat(bits) ==
    LET b    == bits % HALF_DOMAIN_REQUIRED_ENTRIES
        neg  == b >= negZeroRow
        e    == (b \div Pow2(HalfManBits)) % Pow2(HalfExpBits)
        m    == b % Pow2(HalfManBits)
        sig  == IF e = 0 THEN m ELSE Pow2(HalfManBits) + m
        ex   == IF e = 0 THEN 1 ELSE e
        mag  == (sig * One * Pow2(ex)) \div Pow2(HalfBias + HalfManBits)
    IN  IF e = Pow2(HalfExpBits) - 1
        THEN IF m # 0 THEN NaN ELSE IF neg THEN NegInf ELSE PosInf
        ELSE IF neg THEN 0 - mag ELSE mag

-----------------------------------------------------------------------------
(* Enumerations *)

LUT_STANDARD == 0
LUT_INPUT_HALF_CODE == 1
LUT_OUTPUT_HALF_CODE == 2
LUT_INPUT_OUTPUT_HALF_CODE == 3
HalfFlagsSet == {LUT_STANDARD, LUT_INPUT_HALF_CODE, LUT_OUTPUT_HALF_CODE,
                 LUT_INPUT_OUTPUT_HALF_CODE}

InterpolationSet == {"INTERP_UNKNOWN", "INTERP_NEAREST", "INTERP_LINEAR",
                     "INTERP_TETRAHEDRAL", "INTERP_CUBIC", "INTERP_DEFAULT",
                     "INTERP_BEST", "INTERP_OUT_OF_ENUM"}
HueAdjustSet == {"HUE_NONE", "HUE_DW3"}
DirectionSet == {"TRANSFORM_DIR_FORWARD", "TRANSFORM_DIR_INVERSE"}
InvQualitySet == {"LUT_INVERSION_FAST", "LUT_INVERSION_EXACT"}

IsInputHalfDomain(halfFlags) == (halfFlags % 2) = 1
IsOutputRawHalfs(halfFlags) == (halfFlags \div 2) % 2 = 1


-----------------------------------------------------------------------------
(* Lut3by1DArray *)

maxColorComponents == 3
MAX_LUT_LENGTH == 1024 * 1024

\* floor(a * b / c) without leaving 32 bits, for a <= 2^20, b <= One
MulDiv(a, b, c) ==
    LET hi == a \div 1024
        lo == a % 1024
        q1 == (hi * b) \div c
        r1 == (hi * b) % c
    IN  q1 * 1024 + (r1 * 1024 + lo * b) \div c

\* (float)idx * (1.0f / ((float)dim - 1.0f))
StandardFillValue(idx, dim) == MulDiv(idx, One, dim - 1)

\* Lut3by1DArray::fill: the values of an identity of dim rows
Fill(halfFlags, dim) ==
    IF IsInputHalfDomain(halfFlags)
    THEN [i \in 0..(dim * maxColorComponents - 1) |->
            HalfToFloat((i \div maxColorComponents) % HALF_DOMAIN_REQUIRED_ENTRIES)]
    ELSE [i \in 0..(dim * maxColorComponents - 1) |->
            StandardFillValue(i \div maxColorComponents, dim)]

\* resize rejecting the largest length as well
ResizeErrorInclusive(length) ==
    IF length < 2 THEN "LUT 1D length needs to be at least 2."
    ELSE IF length >= MAX_LUT_LENGTH
         THEN "LUT 1D: Length must not be greater than 1024x1024 (1048576)."
    ELSE ""

\* Lut3by1DArray::resize: the exception it throws, "" when it succeeds
ResizeError(length) ==
    IF length < 2 THEN "LUT 1D length needs to be at least 2."
    ELSE IF length > MAX_LUT_LENGTH
         THEN "LUT 1D: Length must not be greater than 1024x1024 (1048576)."
    ELSE ""

\* Lut3by1DArray::Lut3by1DArray: the exception it throws, "" when it succeeds
ArrayCtorError(length) ==
    IF length < 2 THEN "LUT 1D length needs to be at least 2."
    ELSE ResizeError(length)

\* Array::validate: the structural check of the sample array
ArrayValidateError(lut) ==
    IF lut.length = 0 THEN "Array content is empty."
    ELSE IF DOMAIN lut.values # 0..(lut.length * maxColorComponents - 1)
         THEN "Array content does not have the expected number of values."
    ELSE IF lut.numComp \notin {1, maxColorComponents}
         THEN "Array has an unsupported number of color components."
    ELSE ""

\* Array::operator==
ArrayEqual(a, b) ==
    /\ a.length = b.length
    /\ a.numComp = b.numComp
    /\ a.values = b.values

\* Array::scale
ArrayScale(values, f) == [i \in DOMAIN values |-> FMul(values[i], f)]

\* Array::adjustColorComponentNumber: 3 channels collapse to 1 when identical
AdjustColorComponentNumber(lut) ==
    IF /\ lut.numComp = maxColorComponents
       /\ \A r \in 0..(lut.length - 1) :
             /\ lut.values[r * maxColorComponents]
                   = lut.values[r * maxColorComponents + 1]
             /\ lut.values[r * maxColorComponents]
                   = lut.values[r * maxColorComponents + 2]
    THEN [lut EXCEPT !.numComp = 1]
    ELSE lut

-----------------------------------------------------------------------------
(* Lut1DOpData *)

\* ComponentProperties as default-constructed
DefaultProps ==
    [isIncreasing |-> FALSE, startDomain |-> 0, endDomain |-> 0,
     negStartDomain |-> 0, negEndDomain |-> 0]

NoObj == [length |-> 0]

\* Lut1DOpData::Lut1DOpData(halfFlags, dimension) after a successful array
\* construction; Lut1DOpData(dimension) and Lut1DOpData(dimension, dir) are
\* NewLut(LUT_STANDARD, dimension, dir).
NewLut(halfFlags, dimension, dir) ==
    [length             |-> dimension,
     numComp            |-> maxColorComponents,
     values             |-> Fill(halfFlags, dimension),
     interpolation      |-> "INTERP_DEFAULT",
     halfFlags          |-> halfFlags,
     hueAdjust          |-> "HUE_NONE",
     direction          |-> dir,
     invQuality         |-> "LUT_INVERSION_FAST",
     fileOutputBitDepth |-> "BIT_DEPTH_UNKNOWN",
     props              |-> [c \in 0..2 |-> DefaultProps],
     cacheID            |-> <<>>]

getConcreteInterpolation(lut) == "INTERP_LINEAR"

setInterpolation(lut, algo) == [lut EXCEPT !.interpolation = algo]

setInversionQuality(lut, style) == [lut EXCEPT !.invQuality = style]

setHueAdjust(lut, algo) == [lut EXCEPT !.hueAdjust = algo]

setInputHalfDomain(lut, isHalfDomain) ==
    [lut EXCEPT !.halfFlags =
        IF isHalfDomain
        THEN (IF IsInputHalfDomain(@) THEN @ ELSE @ + LUT_INPUT_HALF_CODE)
        ELSE (IF IsInputHalfDomain(@) THEN @ - LUT_INPUT_HALF_CODE ELSE @)]

setOutputRawHalfs(lut, isRawHalfs) ==
    [lut EXCEPT !.halfFlags =
        IF isRawHalfs
        THEN (IF IsOutputRawHalfs(@) THEN @ ELSE @ + LUT_OUTPUT_HALF_CODE)
        ELSE (IF IsOutputRawHalfs(@) THEN @ - LUT_OUTPUT_HALF_CODE ELSE @)]

\* scale that clears the cache id of the LUT it changes
scaleInvalidating(lut, f) == [lut EXCEPT !.values = ArrayScale(@, f), !.cacheID = <<>>]

scale(lut, f) == [lut EXCEPT !.values = ArrayScale(@, f)]

\* IsValid with the CUBIC case fallen through to the accepted ones
IsValidCubic(interpolation) ==
    interpolation \in {"INTERP_BEST", "INTERP_DEFAULT", "INTERP_LINEAR",
                       "INTERP_NEAREST", "INTERP_CUBIC"}

IsValid(interpolation) ==
    interpolation \in {"INTERP_BEST", "INTERP_DEFAULT", "INTERP_LINEAR",
                       "INTERP_NEAREST"}

\* Lut1DOpData::validate: the exception it throws, "" when it succeeds
ValidateError(lut) ==
    IF ~IsValid(lut.interpolation)
    THEN "1D LUT does not support interpolation algorithm"
    ELSE IF ArrayValidateError(lut) # ""
    THEN "1D LUT content array issue"
    ELSE IF /\ IsInputHalfDomain(lut.halfFlags)
            /\ lut.length # HALF_DOMAIN_REQUIRED_ENTRIES
    THEN "entries found, 65536 required for halfDomain 1D LUT"
    ELSE ""

haveEqualBasics(a, b) ==
    /\ a.halfFlags = b.halfFlags
    /\ a.hueAdjust = b.hueAdjust
    /\ ArrayEqual(a, b)

\* Lut1DOpData::operator==
LutEquals(a, b) ==
    IF \/ a.direction # b.direction
       \/ getConcreteInterpolation(a) # getConcreteInterpolation(b)
    THEN FALSE
    ELSE haveEqualBasics(a, b)

isInverse(a, b) ==
    IF \/ (a.direction = "TRANSFORM_DIR_FORWARD" /\ b.direction = "TRANSFORM_DIR_INVERSE")
       \/ (a.direction = "TRANSFORM_DIR_INVERSE" /\ b.direction = "TRANSFORM_DIR_FORWARD")
    THEN haveEqualBasics(a, b)
    ELSE FALSE

\* mayCompose that looks at the hue adjust only
mayComposeHueOnly(a, b) ==
    /\ a.hueAdjust = "HUE_NONE"
    /\ b.hueAdjust = "HUE_NONE"

mayCompose(a, b) ==
    /\ a.direction = "TRANSFORM_DIR_FORWARD"
    /\ b.direction = "TRANSFORM_DIR_FORWARD"
    /\ a.hueAdjust = "HUE_NONE"
    /\ b.hueAdjust = "HUE_NONE"

\* the object Lut1DOpData::clone allocates: the copy constructor's result
clone(lut) == lut

\* inverse() that returns the copy without flipping its direction
inverseSameDirection(lut) == clone(lut)

\* the object Lut1DOpData::inverse allocates
inverse(lut) ==
    [clone(lut) EXCEPT !.direction =
        IF lut.direction = "TRANSFORM_DIR_FORWARD"
        THEN "TRANSFORM_DIR_INVERSE" ELSE "TRANSFORM_DIR_FORWARD"]

\* hasExtendedRange with the tolerance subtracted from the upper limit
hasExtendedRangeTight(lut) ==
    LET normalMin == 0 - 1
        normalMax == One - 1
    IN  \E i \in DOMAIN lut.values :
           /\ ~IsNan(lut.values[i])
           /\ (FLt(lut.values[i], normalMin) \/ FGt(lut.values[i], normalMax))

hasExtendedRange(lut) ==
    LET normalMin == 0 - 1
        normalMax == One + 1
    IN  \E i \in DOMAIN lut.values :
           /\ ~IsNan(lut.values[i])
           /\ (FLt(lut.values[i], normalMin) \/ FGt(lut.values[i], normalMax))

-----------------------------------------------------------------------------
(* Lut1DOpData::prepareArray *)

\* The "flatten reversals" loop: for (idx = from; idx < limit; idx += maxChannels)
RECURSIVE FlattenLoop(_, _, _, _, _)
FlattenLoop(values, idx, limit, prevValue, isIncreasing) ==
    IF idx >= limit THEN values
    ELSE IF isIncreasing # FGt(values[idx], prevValue)
         THEN FlattenLoop([values EXCEPT ![idx] = prevValue],
                          idx + maxColorComponents, limit, prevValue, isIncreasing)
         ELSE FlattenLoop(values, idx + maxColorComponents, limit,
                          values[idx], isIncreasing)

\* while (endDomain > low && values[(endDomain - 1) * maxChannels + c] == endValue)
RECURSIVE ScanDown(_, _, _, _, _)
ScanDown(values, c, endDomain, low, endValue) ==
    IF /\ endDomain > low
       /\ FEq(values[(endDomain - 1) * maxColorComponents + c], endValue)
    THEN ScanDown(values, c, endDomain - 1, low, endValue)
    ELSE endDomain

\* while (startDomain < endDomain && values[(startDomain + 1) * maxChannels + c] == startValue)
RECURSIVE ScanUp(_, _, _, _, _)
ScanUp(values, c, startDomain, endDomain, startValue) ==
    IF /\ startDomain < endDomain
       /\ FEq(values[(startDomain + 1) * maxColorComponents + c], startValue)
    THEN ScanUp(values, c, startDomain + 1, endDomain, startValue)
    ELSE startDomain

\* index one past the last the positive walk of channel c visits
PosWalkLimit(c) == posInfRow * maxColorComponents + 1

\* index one past the last the negative walk of channel c visits
NegWalkLimit(c) == negInfRow * maxColorComponents + 1

\* direction detection that takes equal ends for increasing
DetectIncreasingWeak(lut, c) ==
    LET highRow == IF IsInputHalfDomain(lut.halfFlags) THEN oneRow
                   ELSE lut.length - 1
    IN  ~FGt(lut.values[c], lut.values[highRow * maxColorComponents + c])

\* direction detection of channel c
DetectIncreasing(lut, c) ==
    LET lowInd  == IF IsInputHalfDomain(lut.halfFlags)
                   THEN 0 * maxColorComponents + c
                   ELSE c
        highInd == IF IsInputHalfDomain(lut.halfFlags)
                   THEN oneRow * maxColorComponents + c
                   ELSE (lut.length - 1) * maxColorComponents + c
    IN  FLt(lut.values[lowInd], lut.values[highInd])

\* reversal flattening whose walks compare from the third row on
FlattenReversalsLate(lut, c, isIncreasing) ==
    IF ~IsInputHalfDomain(lut.halfFlags)
    THEN FlattenLoop(lut.values, c + 2 * maxColorComponents,
                     lut.length * maxColorComponents, lut.values[c], isIncreasing)
    ELSE LET startInd == 0 * maxColorComponents + c
             pos == FlattenLoop(lut.values, startInd + 2 * maxColorComponents,
                                PosWalkLimit(c), lut.values[startInd], isIncreasing)
         IN  FlattenLoop(pos, negZeroRow * maxColorComponents + c,
                         NegWalkLimit(c), pos[c], ~isIncreasing)

\* reversal flattening of channel c
FlattenReversals(lut, c, isIncreasing) ==
    IF ~IsInputHalfDomain(lut.halfFlags)
    THEN FlattenLoop(lut.values, c + maxColorComponents,
                     lut.length * maxColorComponents, lut.values[c], isIncreasing)
    ELSE LET startInd == 0 * maxColorComponents + c
             pos == FlattenLoop(lut.values, startInd + maxColorComponents,
                                PosWalkLimit(c), lut.values[startInd], isIncreasing)
         IN  FlattenLoop(pos, negZeroRow * maxColorComponents + c,
                         NegWalkLimit(c), pos[c], ~isIncreasing)

\* effective domain whose scan for the start runs over the whole plateau,
\* whether or not the scan for the end has claimed it
EffectiveDomainStartFirst(lut, values, c, isIncreasing) ==
    LET last == IF IsInputHalfDomain(lut.halfFlags) THEN posMaxRow
                ELSE lut.length - 1
        endDomain   == ScanDown(values, c, last, 0,
                           values[last * maxColorComponents + c])
        startDomain == ScanUp(values, c, 0, last,
                           values[0 * maxColorComponents + c])
    IN  IF ~IsInputHalfDomain(lut.halfFlags)
        THEN [lut.props[c] EXCEPT !.isIncreasing = isIncreasing,
                                  !.startDomain = startDomain,
                                  !.endDomain = endDomain]
        ELSE LET negEndDomain == ScanDown(values, c, negMaxRow, negZeroRow,
                                    values[negMaxRow * maxColorComponents + c])
                 negStartDomain == ScanUp(values, c, negZeroRow, negMaxRow,
                                    values[negZeroRow * maxColorComponents + c])
             IN  [isIncreasing |-> isIncreasing,
                  startDomain |-> startDomain, endDomain |-> endDomain,
                  negStartDomain |-> negStartDomain, negEndDomain |-> negEndDomain]

\* effective domain whose half-domain scans start at the infinity rows
EffectiveDomainFromInfinity(lut, values, c, isIncreasing) ==
    IF ~IsInputHalfDomain(lut.halfFlags)
    THEN LET endDomain   == ScanDown(values, c, lut.length - 1, 0,
                                values[(lut.length - 1) * maxColorComponents + c])
             startDomain == ScanUp(values, c, 0, endDomain,
                                values[0 * maxColorComponents + c])
         IN  [lut.props[c] EXCEPT !.isIncreasing = isIncreasing,
                                  !.startDomain = startDomain,
                                  !.endDomain = endDomain]
    ELSE LET endDomain   == ScanDown(values, c, posInfRow, 0,
                                values[posInfRow * maxColorComponents + c])
             startDomain == ScanUp(values, c, 0, endDomain,
                                values[0 * maxColorComponents + c])
             negEndDomain == ScanDown(values, c, negInfRow, negZeroRow,
                                values[negInfRow * maxColorComponents + c])
             negStartDomain == ScanUp(values, c, negZeroRow, negEndDomain,
                                values[negZeroRow * maxColorComponents + c])
         IN  [isIncreasing |-> isIncreasing,
              startDomain |-> startDomain, endDomain |-> endDomain,
              negStartDomain |-> negStartDomain, negEndDomain |-> negEndDomain]

\* effective domain of channel c over the flattened values
EffectiveDomain(lut, values, c, isIncreasing) ==
    IF ~IsInputHalfDomain(lut.halfFlags)
    THEN LET endDomain   == ScanDown(values, c, lut.length - 1, 0,
                                values[(lut.length - 1) * maxColorComponents + c])
             startDomain == ScanUp(values, c, 0, endDomain,
                                values[0 * maxColorComponents + c])
         IN  [lut.props[c] EXCEPT !.isIncreasing = isIncreasing,
                                  !.startDomain = startDomain,
                                  !.endDomain = endDomain]
    ELSE LET endDomain   == ScanDown(values, c, posMaxRow, 0,
                                values[posMaxRow * maxColorComponents + c])
             startDomain == ScanUp(values, c, 0, endDomain,
                                values[0 * maxColorComponents + c])
             negEndDomain == ScanDown(values, c, negMaxRow, negZeroRow,
                                values[negMaxRow * maxColorComponents + c])
             negStartDomain == ScanUp(values, c, negZeroRow, negEndDomain,
                                values[negZeroRow * maxColorComponents + c])
         IN  [isIncreasing |-> isIncreasing,
              startDomain |-> startDomain, endDomain |-> endDomain,
              negStartDomain |-> negStartDomain, negEndDomain |-> negEndDomain]

\* one iteration of the loop over the active channels
PrepareChannel(lut, c) ==
    LET isIncreasing == DetectIncreasing(lut, c)
        flat == FlattenReversals(lut, c, isIncreasing)
    IN  [lut EXCEPT !.values = flat,
                    !.props[c] = EffectiveDomain(lut, flat, c, isIncreasing)]

RECURSIVE PrepareChannels(_, _, _)
PrepareChannels(lut, c, activeChannels) ==
    IF c >= activeChannels THEN lut
    ELSE PrepareChannels(PrepareChannel(lut, c), c + 1, activeChannels)

\* the rows prepareArray touches exist: a half-domain walk over a shorter
\* array reads and writes outside the vector
PrepareInBounds(lut) ==
    IsInputHalfDomain(lut.halfFlags) => lut.length > negInfRow

prepareArray(lut) ==
    LET activeChannels == lut.numComp
        done == PrepareChannels(lut, 0, activeChannels)
    IN  IF activeChannels = 1
        THEN [done EXCEPT !.props[1] = done.props[0], !.props[2] = done.props[0]]
        ELSE done

-----------------------------------------------------------------------------
(* Lut1DOpData::finalize *)

\* md5 of the raw bytes of the whole value vector, as a collision-free digest
Md5(values) == values

GetPrintableHash(digest) == digest

TransformDirectionToString(dir) ==
    IF dir = "TRANSFORM_DIR_FORWARD" THEN "forward"
    ELSE IF dir = "TRANSFORM_DIR_INVERSE" THEN "inverse"
    ELSE "unknown"

InterpolationToString(interp) ==
    CASE interp = "INTERP_NEAREST"     -> "nearest"
      [] interp = "INTERP_LINEAR"      -> "linear"
      [] interp = "INTERP_TETRAHEDRAL" -> "tetrahedral"
      [] interp = "INTERP_CUBIC"       -> "cubic"
      [] interp = "INTERP_DEFAULT"     -> "default"
      [] interp = "INTERP_BEST"        -> "best"
      [] OTHER                         -> "unknown"

GetHueAdjustName(algo) ==
    IF algo = "HUE_DW3" THEN "dw3" ELSE "none"

\* the string finalize() assembles in cacheIDStream
CacheID(lut) ==
    << GetPrintableHash(Md5(lut.values)),
       TransformDirectionToString(lut.direction),
       InterpolationToString(lut.interpolation),
       IF IsInputHalfDomain(lut.halfFlags) THEN "half domain " ELSE "standard domain ",
       GetHueAdjustName(lut.hueAdjust) >>

\* finalize() preparing the array whatever the direction
FinalizePreparedAlways(lut) ==
    AdjustColorComponentNumber(
        IF PrepareInBounds(lut) THEN prepareArray(lut) ELSE lut)

\* finalize() up to the lock: preparation and channel normalisation
FinalizePrepared(lut) ==
    AdjustColorComponentNumber(
        IF lut.direction = "TRANSFORM_DIR_INVERSE" THEN prepareArray(lut) ELSE lut)

\* finalize() taking the digest of the array before preparing it
FinalizeDigestFirst(lut) ==
    LET prepared == FinalizePrepared(lut)
        e == ValidateError(prepared)
    IN  IF e # ""
        THEN [lut |-> prepared, err |-> e]
        ELSE [lut |-> [prepared EXCEPT !.cacheID = CacheID(lut)], err |-> ""]

\* finalize(): the object it leaves and the exception it throws ("" when none)
finalize(lut) ==
    LET prepared == FinalizePrepared(lut)
        e == ValidateError(prepared)
    IN  IF e # ""
        THEN [lut |-> prepared, err |-> e]
        ELSE [lut |-> [prepared EXCEPT !.cacheID = CacheID(prepared)], err |-> ""]

\* finalize() indexes rows that do not exist
FinalizeOutOfBounds(lut) ==
    lut.direction = "TRANSFORM_DIR_INVERSE" /\ ~PrepareInBounds(lut)

-----------------------------------------------------------------------------
(* Composition *)

\* the values of the non-negative halfs, by bit pattern
HalfMagnitudes == [r \in 0..posInfRow |-> HalfToFloat(r)]

\* the largest bit pattern in lo..hi whose half does not exceed mag
RECURSIVE HalfFloor(_, _, _)
HalfFloor(mag, lo, hi) ==
    IF lo = hi THEN lo
    ELSE LET mid == (lo + hi + 1) \div 2
         IN  IF HalfMagnitudes[mid] <= mag
             THEN HalfFloor(mag, mid, hi) ELSE HalfFloor(mag, lo, mid - 1)

\* the row of a half-domain LUT that the input x selects: the bit pattern
\* of the half nearest to x, a tie going to the even pattern
HalfRowOf(x) ==
    IF IsNan(x) THEN posInfRow + 1
    ELSE LET neg  == x < 0
             mag  == IF neg THEN 0 - x ELSE x
             lo   == HalfFloor(mag, 0, posInfRow)
             hi   == IF lo < posInfRow THEN lo + 1 ELSE lo
             dlo  == mag - HalfMagnitudes[lo]
             dhi  == HalfMagnitudes[hi] - mag
             best == IF dlo < dhi \/ (dlo = dhi /\ lo % 2 = 0) THEN lo ELSE hi
         IN  IF neg THEN negZeroRow + best ELSE best

\* linear interpolation between two table values at fraction f / One
Lerp(v0, v1, f) ==
    IF f = 0 \/ v0 = v1 THEN v0
    ELSE IF IsNan(v0) \/ IsNan(v1) THEN NaN
    ELSE IF v0 \in {PosInf, NegInf} THEN (IF v1 \in {PosInf, NegInf} THEN NaN ELSE v0)
    ELSE IF v1 \in {PosInf, NegInf} THEN v1
    ELSE v0 + ((v1 - v0) * (f \div 1000)) \div 100

\* the forward evaluator of a LUT on channel c of a pixel: a look-up for a
\* half domain, a linear interpolation over [0, 1] for a standard domain
EvalLut(lut, c, x) ==
    LET ch == IF lut.numComp = 1 THEN 0 ELSE c
    IN  IF IsInputHalfDomain(lut.halfFlags)
        THEN lut.values[HalfRowOf(x) * maxColorComponents + ch]
        ELSE LET xc   == IF IsNan(x) \/ x < 0 THEN 0 ELSE IF x > One THEN One ELSE x
                 pos  == xc * (lut.length - 1)
                 i0   == pos \div One
                 i1   == IF i0 + 1 > lut.length - 1 THEN lut.length - 1 ELSE i0 + 1
             IN  Lerp(lut.values[i0 * maxColorComponents + ch],
                      lut.values[i1 * maxColorComponents + ch], pos % One)

\* the position of x between the table values v0 and v1, in units of One
InverseFraction(v0, v1, x) ==
    IF ~({v0, v1, x} \cap {NaN, PosInf, NegInf} = {}) \/ v0 = v1 THEN 0
    ELSE LET num == IF x >= v0 THEN x - v0 ELSE v0 - x
             den == IF v1 >= v0 THEN v1 - v0 ELSE v0 - v1
         IN  IF num >= den THEN One ELSE MulDiv(num, One, den)

\* the inverse evaluator of a LUT on channel c of a pixel: the position in
\* the domain at which the table, taken as monotonic, reaches x
EvalInverse(lut, c, x) ==
    LET ch   == IF lut.numComp = 1 THEN 0 ELSE c
        V(i) == lut.values[i * maxColorComponents + ch]
    IN  IF IsInputHalfDomain(lut.halfFlags)
        THEN LET inc == FLt(V(0), V(oneRow))
                 Reached(r) == IF inc THEN ~FGt(V(r), x) ELSE ~FLt(V(r), x)
                 Passed(r)  == IF inc THEN ~FLt(V(r), x) ELSE ~FGt(V(r), x)
                 kpos == Cardinality({r \in 0..posMaxRow : Reached(r)})
                 kneg == Cardinality({r \in negZeroRow..negMaxRow : Passed(r)})
             IN  IF IsNan(x) THEN 0
                 ELSE IF kpos > 0 THEN HalfMagnitudes[kpos - 1]
                 ELSE IF kneg > 0 THEN 0 - HalfMagnitudes[kneg - 1]
                 ELSE 0
        ELSE LET n   == lut.length
                 inc == FLt(V(0), V(n - 1))
                 Reached(i) == IF inc THEN ~FGt(V(i), x) ELSE ~FLt(V(i), x)
                 k   == Cardinality({i \in 0..(n - 1) : Reached(i)})
             IN  IF IsNan(x) \/ k = 0 THEN 0
                 ELSE IF k = n THEN One
                 ELSE ((k - 1) * One + InverseFraction(V(k - 1), V(k), x)) \div (n - 1)

\* the evaluator CreateLut1DOp builds for a LUT, by its direction
EvalOp(lut, c, x) ==
    IF lut.direction = "TRANSFORM_DIR_INVERSE"
    THEN EvalInverse(lut, c, x) ELSE EvalLut(lut, c, x)

\* EvalTransform on one value: the evaluators of the chain applied in order
RECURSIVE EvalChain(_, _, _)
EvalChain(ops, c, x) ==
    IF ops = <<>> THEN x
    ELSE EvalChain(Tail(ops), c, EvalOp(Head(ops), c, x))

\* ComposeVec that hands the values to the last op of the chain first
ComposeVecBackwards(lut, ops) ==
    IF Len(ops) = 0
    THEN [lut |-> lut, err |-> "There is nothing to compose the 1D LUT with"]
    ELSE IF ResizeError(lut.length) # ""
    THEN [lut |-> lut, err |-> ResizeError(lut.length)]
    ELSE [lut |-> [lut EXCEPT !.numComp = 3,
                              !.values = [i \in DOMAIN lut.values |->
                                  EvalChain([k \in 1..Len(ops) |-> ops[Len(ops) + 1 - k]],
                                            i % maxColorComponents, lut.values[i])]],
          err |-> ""]

\* ComposeVec that widens the array before it looks at the chain
ComposeVecResizeFirst(lut, ops) ==
    IF Len(ops) = 0
    THEN [lut |-> [lut EXCEPT !.numComp = 3],
          err |-> "There is nothing to compose the 1D LUT with"]
    ELSE [lut |-> [lut EXCEPT !.numComp = 3,
                              !.values = [i \in DOMAIN lut.values |->
                                  EvalChain(ops, i % maxColorComponents, lut.values[i])]],
          err |-> ""]

\* Lut1DOpData::ComposeVec: the object it leaves in A and the exception
ComposeVec(lut, ops) ==
    IF Len(ops) = 0
    THEN [lut |-> lut, err |-> "There is nothing to compose the 1D LUT with"]
    ELSE IF ResizeError(lut.length) # ""
    THEN [lut |-> lut, err |-> ResizeError(lut.length)]
    ELSE [lut |-> [lut EXCEPT !.numComp = 3,
                              !.values = [i \in DOMAIN lut.values |->
                                  EvalChain(ops, i % maxColorComponents, lut.values[i])]],
          err |-> ""]

BitDepthSet == {"BIT_DEPTH_UNKNOWN", "BIT_DEPTH_UINT8", "BIT_DEPTH_UINT10",
                "BIT_DEPTH_UINT12", "BIT_DEPTH_UINT14", "BIT_DEPTH_UINT16",
                "BIT_DEPTH_UINT32", "BIT_DEPTH_F16", "BIT_DEPTH_F32"}

IsFloatBitDepth(depth) == depth \in {"BIT_DEPTH_F16", "BIT_DEPTH_F32"}

\* the number of bits of an integer depth
DepthBits(depth) ==
    CASE depth = "BIT_DEPTH_UINT8"  -> Uint8Bits
      [] depth = "BIT_DEPTH_UINT10" -> Uint10Bits
      [] depth = "BIT_DEPTH_UINT12" -> Uint12Bits
      [] depth = "BIT_DEPTH_UINT14" -> Uint14Bits
      [] depth = "BIT_DEPTH_UINT16" -> Uint16Bits
      [] OTHER                      -> 0

\* 255, 1023, 4095, 16383 and 65535 for widths of 8, 10, 12, 14 and 16 bits
GetBitDepthMaxValue(depth) == Pow2(DepthBits(depth)) - 1

\* Lut1DOpData::GetLutIdealSize(BitDepth): the size, or the exception
GetLutIdealSize(incomingBitDepth) ==
    IF incomingBitDepth \in {"BIT_DEPTH_UINT8", "BIT_DEPTH_UINT10", "BIT_DEPTH_UINT12",
                             "BIT_DEPTH_UINT14", "BIT_DEPTH_UINT16"}
    THEN [size |-> GetBitDepthMaxValue(incomingBitDepth) + 1, err |-> ""]
    ELSE IF IsFloatBitDepth(incomingBitDepth)
    THEN [size |-> HALF_DOMAIN_REQUIRED_ENTRIES, err |-> ""]
    ELSE [size |-> 0, err |-> "Bit-depth is not supported: "]

\* Lut1DOpData::GetLutIdealSize(BitDepth, HalfFlags)
GetLutIdealSizeFor(inputBitDepth, halfFlags) ==
    IF IsInputHalfDomain(halfFlags)
    THEN [size |-> HALF_DOMAIN_REQUIRED_ENTRIES, err |-> ""]
    ELSE GetLutIdealSize(inputBitDepth)

\* Lut1DOpData::MakeLookupDomain: the identity it allocates, or the exception
MakeLookupDomain(incomingDepth) ==
    LET domainType == IF IsFloatBitDepth(incomingDepth)
                      THEN LUT_INPUT_HALF_CODE ELSE LUT_STANDARD
        idealSize  == GetLutIdealSizeFor(incomingDepth, domainType)
    IN  IF idealSize.err # "" THEN [lut |-> NoObj, err |-> idealSize.err]
        ELSE IF ArrayCtorError(idealSize.size) # ""
        THEN [lut |-> NoObj, err |-> ArrayCtorError(idealSize.size)]
        ELSE [lut |-> NewLut(domainType, idealSize.size, "TRANSFORM_DIR_FORWARD"),
              err |-> ""]

ComposeMethods == {"COMPOSE_RESAMPLE_NO", "COMPOSE_RESAMPLE_BIG", "COMPOSE_RESAMPLE_HD"}

min_size(compFlag) ==
    IF compFlag = "COMPOSE_RESAMPLE_NO" THEN 0 ELSE HALF_DOMAIN_REQUIRED_ENTRIES

needHalfDomain(compFlag) == compFlag = "COMPOSE_RESAMPLE_HD"

\* goodDomain decided by the size alone
goodDomainBySize(a, compFlag) ==
    a.length >= min_size(compFlag) /\ ~needHalfDomain(compFlag)

goodDomain(a, compFlag) ==
    \/ IsInputHalfDomain(a.halfFlags)
    \/ (a.length >= min_size(compFlag) /\ ~needHalfDomain(compFlag))

useOrigDomain(compFlag) == compFlag = "COMPOSE_RESAMPLE_NO"

\* whether Compose replaces A by an identity with a finer domain
Resamples(a, compFlag) == ~goodDomain(a, compFlag) /\ ~useOrigDomain(compFlag)

\* the identity Compose replaces A by
FinerDomain(a, compFlag) ==
    LET fresh == NewLut(IF needHalfDomain(compFlag)
                        THEN LUT_INPUT_HALF_CODE ELSE LUT_STANDARD,
                        min_size(compFlag), "TRANSFORM_DIR_FORWARD")
    IN  setInterpolation(fresh, fresh.interpolation)

\* a chain with the clone of B ahead of the original A
ComposeOpsSourceFirst(a, b, compFlag) ==
    <<clone(b)>> \o (IF ~goodDomain(a, compFlag) /\ ~useOrigDomain(compFlag) THEN <<a>> ELSE <<>>)

\* the evaluator chain Compose hands to ComposeVec
ComposeOps(a, b, compFlag) ==
    (IF Resamples(a, compFlag) THEN <<a>> ELSE <<>>) \o <<clone(b)>>

\* Lut1DOpData::Compose: the object A refers to on return, and the exception
Compose(a, b, compFlag) ==
    LET domain == IF Resamples(a, compFlag) THEN FinerDomain(a, compFlag) ELSE a
        r == ComposeVec(domain, ComposeOps(a, b, compFlag))
    IN  IF r.err # "" THEN r
        ELSE [lut |-> setHueAdjust(r.lut, b.hueAdjust), err |-> ""]

\* the depth heuristic with the range test ahead of the GPU override
FastDepthRangeFirst(lut, forGPU) ==
    LET d0 == lut.fileOutputBitDepth
        d1 == IF d0 \in {"BIT_DEPTH_UNKNOWN", "BIT_DEPTH_UINT14", "BIT_DEPTH_UINT32"}
              THEN "BIT_DEPTH_UINT12" ELSE d0
        d2 == IF hasExtendedRange(lut) THEN "BIT_DEPTH_F16" ELSE d1
    IN  IF forGPU /\ d2 # "BIT_DEPTH_UINT16" THEN "BIT_DEPTH_UINT12" ELSE d2

\* the depth MakeFastLut1DFromInverse makes the lookup domain for
FastDepth(lut, forGPU) ==
    LET d0 == lut.fileOutputBitDepth
        d1 == IF d0 \in {"BIT_DEPTH_UNKNOWN", "BIT_DEPTH_UINT14", "BIT_DEPTH_UINT32"}
              THEN "BIT_DEPTH_UINT12" ELSE d0
        d2 == IF forGPU /\ d1 # "BIT_DEPTH_UINT16" THEN "BIT_DEPTH_UINT12" ELSE d1
    IN  IF hasExtendedRange(lut) THEN "BIT_DEPTH_F16" ELSE d2

\* LutStyleGuard's constructor: the inversion style becomes EXACT
LutStyleGuardEnter(lut) == setInversionQuality(lut, "LUT_INVERSION_EXACT")

\* LutStyleGuard's destructor: the style the constructor found is put back
LutStyleGuardExit(lut, prevQuality) == setInversionQuality(lut, prevQuality)

\* MakeFastLut1DFromInverse that returns with the source left at EXACT
MakeFastLut1DFromInverseUnrestored(lut, forGPU) ==
    IF lut.direction # "TRANSFORM_DIR_INVERSE"
    THEN [lut |-> NoObj, err |-> "MakeFastLut1DFromInverse expects an inverse 1D LUT",
          src |-> lut, chain |-> <<>>]
    ELSE LET newDomainLut == MakeLookupDomain(FastDepth(lut, forGPU))
         IN  IF newDomainLut.err # ""
             THEN [lut |-> NoObj, err |-> newDomainLut.err, src |-> lut, chain |-> <<>>]
             ELSE LET guarded == LutStyleGuardEnter(lut)
                      r == Compose(newDomainLut.lut, guarded, "COMPOSE_RESAMPLE_NO")
                  IN  [lut   |-> r.lut,
                       err   |-> r.err,
                       src   |-> guarded,
                       chain |-> ComposeOps(newDomainLut.lut, guarded, "COMPOSE_RESAMPLE_NO")]

\* Lut1DOpData::MakeFastLut1DFromInverse: the LUT returned, the exception,
\* the source LUT on exit and the chain handed to ComposeVec
MakeFastLut1DFromInverse(lut, forGPU) ==
    IF lut.direction # "TRANSFORM_DIR_INVERSE"
    THEN [lut |-> NoObj, err |-> "MakeFastLut1DFromInverse expects an inverse 1D LUT",
          src |-> lut, chain |-> <<>>]
    ELSE LET newDomainLut == MakeLookupDomain(FastDepth(lut, forGPU))
         IN  IF newDomainLut.err # ""
             THEN [lut |-> NoObj, err |-> newDomainLut.err, src |-> lut, chain |-> <<>>]
             ELSE LET guarded == LutStyleGuardEnter(lut)
                      r == Compose(newDomainLut.lut, guarded, "COMPOSE_RESAMPLE_NO")
                  IN  [lut   |-> r.lut,
                       err   |-> r.err,
                       src   |-> LutStyleGuardExit(guarded, lut.invQuality),
                       chain |-> ComposeOps(newDomainLut.lut, guarded, "COMPOSE_RESAMPLE_NO")]

-----------------------------------------------------------------------------
(* State machine: the operations a caller performs on the LUT objects *)

ObjIds == 1..MaxObjs

\* the threads that call finalize() on the LUT of A at the same time
Threads == {1, 2}

\* a thread that is not inside finalize()
NotCalling == [pc |-> "idle"]

NoCalls == [t \in Threads |-> NotCalling]
OutOfBounds == "out-of-bounds access"

\* values a caller writes into the array
EditValues == {0 - One, NaN, PosInf}

\* rows a caller writes to: every row of a short LUT, the rows the half
\* layout distinguishes of a half-domain sized one
EditRows(lut) ==
    IF lut.length <= MaxLen THEN 0..(lut.length - 1)
    ELSE {0, oneRow, posMaxRow, posInfRow, posInfRow + 1,
          negZeroRow, negMaxRow, negInfRow} \cap 0..(lut.length - 1)

Live == err # OutOfBounds
Targets == {A, B} \ {0}

\* bookkeeping common to every operation
Did(name, t, a, e, r) ==
    /\ op' = name
    /\ tgt' = t
    /\ arg' = a
    /\ err' = e
    /\ ret' = r
    /\ streak' = IF name = "finalize" /\ e = ""
                 THEN (IF op = "finalize" /\ tgt = t /\ streak >= 1 THEN 2 ELSE 1)
                 ELSE 0
    /\ UNCHANGED <<calls, mutex>>

Mutate(name, t, a, newLut) ==
    /\ Live
    /\ edits < MaxEdits
    /\ heap' = [heap EXCEPT ![t] = newLut]
    /\ edits' = edits + 1
    /\ Did(name, t, a, "", FALSE)
    /\ UNCHANGED <<A, B>>

\* getArray().getValues()[row * maxChannels + c] = v
SetValue(t, row, c, v) ==
    /\ row \in EditRows(heap[t])
    /\ Mutate("setValue", t, <<row, c, v>>, [heap[t] EXCEPT !.values[row * maxColorComponents + c] = v])

Scale(t, f) == Mutate("scale", t, f, scale(heap[t], f))

SetInterpolation(t, algo) == Mutate("setInterpolation", t, algo, setInterpolation(heap[t], algo))

SetInversionQuality(t, style) ==
    Mutate("setInversionQuality", t, style, setInversionQuality(heap[t], style))

SetHueAdjust(t, algo) == Mutate("setHueAdjust", t, algo, setHueAdjust(heap[t], algo))

SetInputHalfDomain(t, b) == Mutate("setInputHalfDomain", t, b, setInputHalfDomain(heap[t], b))

SetOutputRawHalfs(t, b) == Mutate("setOutputRawHalfs", t, b, setOutputRawHalfs(heap[t], b))

Finalize(t) ==
    /\ Live
    /\ IF FinalizeOutOfBounds(heap[t])
       THEN /\ heap' = heap
            /\ Did("finalize", t, <<>>, OutOfBounds, FALSE)
       ELSE LET r == finalize(heap[t])
            IN  /\ heap' = [heap EXCEPT ![t] = r.lut]
                /\ Did("finalize", t, <<>>, r.err, FALSE)
    /\ UNCHANGED <<A, B, edits>>

Validate(t) ==
    /\ Live
    /\ Did("validate", t, <<>>, ValidateError(heap[t]), FALSE)
    /\ UNCHANGED <<heap, A, B, edits>>

HasExtendedRange(t) ==
    /\ Live
    /\ Did("hasExtendedRange", t, <<>>, "", hasExtendedRange(heap[t]))
    /\ UNCHANGED <<heap, A, B, edits>>

EmptyHeap == [i \in ObjIds |-> NoObj]

\* Array::setNumColorComponents
SetNumColorComponents(t, n) ==
    Mutate("setNumColorComponents", t, n, [heap[t] EXCEPT !.numComp = n])

\* A = std::make_shared<Lut1DOpData>(halfFlags, length)
Construct(halfFlags, length) ==
    /\ Live
    /\ A = 0
    /\ IF ArrayCtorError(length) # ""
       THEN /\ Did("construct", 0, [halfFlags |-> halfFlags, length |-> length],
                   ArrayCtorError(length), FALSE)
            /\ UNCHANGED <<heap, A>>
       ELSE /\ heap' = [heap EXCEPT ![1] = NewLut(halfFlags, length, "TRANSFORM_DIR_FORWARD")]
            /\ A' = 1
            /\ Did("construct", 1, [halfFlags |-> halfFlags, length |-> length], "", FALSE)
    /\ UNCHANGED <<B, edits>>

InitEmpty ==
    /\ heap = EmptyHeap
    /\ A = 0
    /\ B = 0
    /\ op = "none"
    /\ tgt = 0
    /\ arg = <<>>
    /\ err = ""
    /\ ret = FALSE
    /\ edits = 0
    /\ streak = 0
    /\ calls = NoCalls
    /\ mutex = 0

-----------------------------------------------------------------------------
(* Construction: every length around the limits of the array *)

CtorLengths == 0..(HALF_DOMAIN_REQUIRED_ENTRIES + 1)
LongLengths == {MAX_LUT_LENGTH, MAX_LUT_LENGTH + 1}

NextCtor ==
    \/ \E hf \in HalfFlagsSet, len \in CtorLengths : Construct(hf, len)
    \/ \E len \in LongLengths : Construct(LUT_STANDARD, len)
    \/ (A # 0 /\ Validate(A))

SpecCtor == InitEmpty /\ [][NextCtor]_vars

-----------------------------------------------------------------------------
(* Validation: LUTs of the lengths around the half-domain size, their flags,
   interpolation and channel count set by the caller *)

ValidateLengths == {2, MaxLen, HALF_DOMAIN_REQUIRED_ENTRIES - 1,
                    HALF_DOMAIN_REQUIRED_ENTRIES, HALF_DOMAIN_REQUIRED_ENTRIES + 1}

NextValidate ==
    \/ \E hf \in HalfFlagsSet, len \in ValidateLengths : Construct(hf, len)
    \/ (A # 0 /\ \E algo \in InterpolationSet : SetInterpolation(A, algo))
    \/ (A # 0 /\ \E b \in BOOLEAN : SetInputHalfDomain(A, b))
    \/ (A # 0 /\ \E b \in BOOLEAN : SetOutputRawHalfs(A, b))
    \/ (A # 0 /\ \E n \in 1..maxColorComponents : SetNumColorComponents(A, n))
    \/ (A # 0 /\ Validate(A))
    \/ (A # 0 /\ HasExtendedRange(A))

SpecValidate == InitEmpty /\ [][NextValidate]_vars

-----------------------------------------------------------------------------
(* Preparation: one LUT, standard or half domain, edited and finalized *)

InitPrep ==
    /\ \E hf \in {LUT_STANDARD, LUT_INPUT_HALF_CODE}, dir \in DirectionSet :
         \E len \in (IF IsInputHalfDomain(hf)
                     THEN {HALF_DOMAIN_REQUIRED_ENTRIES} ELSE 2..MaxLen) :
            heap = [EmptyHeap EXCEPT ![1] = NewLut(hf, len, dir)]
    /\ A = 1
    /\ B = 0
    /\ op = "construct"
    /\ tgt = 1
    /\ arg = <<>>
    /\ err = ""
    /\ ret = FALSE
    /\ edits = 0
    /\ streak = 0
    /\ calls = NoCalls
    /\ mutex = 0

NextPrep ==
    \/ \E row \in 0..(HALF_DOMAIN_REQUIRED_ENTRIES - 1), c \in 0..2, v \in EditValues :
          SetValue(A, row, c, v)
    \/ Finalize(A)

SpecPrep == InitPrep /\ [][NextPrep]_vars

-----------------------------------------------------------------------------
(* Two handles: a LUT, and a second one cloned, inverted or constructed *)

\* a rendering of std::make_shared that hands back the source object itself
cloneAddressShared(t) == t

\* std::make_shared<Lut1DOpData>(...): the address of a newly allocated object
cloneAddress(t) == CHOOSE i \in ObjIds : heap[i] = NoObj

\* B = heap[A].clone()
Clone ==
    /\ Live
    /\ A # 0 /\ B = 0
    /\ LET n == cloneAddress(A)
       IN  /\ heap' = [heap EXCEPT ![n] = clone(heap[A])]
           /\ B' = n
    /\ Did("clone", A, <<>>, "", FALSE)
    /\ UNCHANGED <<A, edits>>

\* B = heap[A].inverse()
InverseOp ==
    /\ Live
    /\ A # 0 /\ B = 0
    /\ LET n == cloneAddress(A)
       IN  /\ heap' = [heap EXCEPT ![n] = inverse(heap[A])]
           /\ B' = n
    /\ Did("inverse", A, <<>>, "", FALSE)
    /\ UNCHANGED <<A, edits>>

Query(name, x, y, r) ==
    /\ Live
    /\ x # 0 /\ y # 0 /\ x # y
    /\ edits <= MaxEdits
    /\ Did(name, x, y, "", r)
    /\ UNCHANGED <<heap, A, B, edits>>

\* heap[x].isInverse(heap[y])
IsInverse(x, y) == Query("isInverse", x, y, isInverse(heap[x], heap[y]))

\* heap[x].mayCompose(heap[y])
MayCompose(x, y) == Query("mayCompose", x, y, mayCompose(heap[x], heap[y]))

\* the LUTs the evaluator chain is asked to evaluate are valid forward LUTs
Evaluable(lut) == ValidateError(lut) = "" /\ lut.direction = "TRANSFORM_DIR_FORWARD"

\* Lut1DOpData::Compose(target, source, compFlag), target being one of the two
\* handles and source the object of the other
ComposeOp(targetIsA, compFlag) ==
    LET x == IF targetIsA THEN A ELSE B
        y == IF targetIsA THEN B ELSE A
    IN  /\ Live
        /\ x # 0 /\ y # 0 /\ x # y
        /\ edits <= MaxEdits
        /\ Evaluable(heap[y])
        /\ Resamples(heap[x], compFlag) => Evaluable(heap[x])
        /\ LET r == Compose(heap[x], heap[y], compFlag)
               n == IF Resamples(heap[x], compFlag) THEN cloneAddress(x) ELSE x
           IN  /\ heap' = [[heap EXCEPT ![x] = NoObj] EXCEPT ![n] = r.lut]
               /\ A' = IF targetIsA THEN n ELSE A
               /\ B' = IF targetIsA THEN B ELSE n
               /\ Did("compose", n,
                      [source |-> y, method |-> compFlag,
                       chain |-> ComposeOps(heap[x], heap[y], compFlag)],
                      r.err, FALSE)
        /\ edits' = MaxEdits + 1

\* the evaluator chain of n ops a caller builds from the two LUTs: B first,
\* then a copy of A, in turn
ComposeChain(n) == [i \in 1..n |-> IF i % 2 = 1 THEN heap[B] ELSE heap[A]]

\* Lut1DOpData::ComposeVec(A, ops), ops being a chain of n ops
ComposeVecOp(n) ==
    LET ops == ComposeChain(n)
        r   == ComposeVec(heap[A], ops)
    IN  /\ Live
        /\ A # 0 /\ B # 0 /\ A # B
        /\ edits <= MaxEdits
        /\ Evaluable(heap[B])
        /\ n >= 2 => Evaluable(heap[A])
        /\ heap' = [heap EXCEPT ![A] = r.lut]
        /\ Did("composeVec", A, ops, r.err, FALSE)
        /\ edits' = MaxEdits + 1
        /\ UNCHANGED <<A, B>>

InitObj ==
    /\ \E hf \in {LUT_STANDARD, LUT_INPUT_HALF_CODE} :
          heap = [EmptyHeap EXCEPT ![1] =
                     NewLut(hf, IF IsInputHalfDomain(hf)
                                THEN HALF_DOMAIN_REQUIRED_ENTRIES ELSE MaxLen,
                            "TRANSFORM_DIR_FORWARD")]
    /\ A = 1
    /\ B = 0
    /\ op = "construct"
    /\ tgt = 1
    /\ arg = <<>>
    /\ err = ""
    /\ ret = FALSE
    /\ edits = 0
    /\ streak = 0
    /\ calls = NoCalls
    /\ mutex = 0

NextObj ==
    \/ Clone
    \/ InverseOp
    \/ \E t \in Targets :
          \/ SetValue(t, heap[t].length - 1, 0, NaN)
          \/ Scale(t, 2)
          \/ SetInterpolation(t, "INTERP_NEAREST")
          \/ SetHueAdjust(t, "HUE_DW3")
          \/ SetOutputRawHalfs(t, TRUE)
          \/ Finalize(t)
    \/ IsInverse(A, B)
    \/ MayCompose(A, B)
    \/ \E compFlag \in ComposeMethods : ComposeOp(TRUE, compFlag)
    \/ ComposeOp(FALSE, "COMPOSE_RESAMPLE_NO")

SpecObj == InitObj /\ [][NextObj]_vars

-----------------------------------------------------------------------------
(* Composition of two constructed LUTs, the first on a coarse or a fine domain *)

ComposeDomains ==
    { <<LUT_STANDARD, MaxLen>>,
      <<LUT_STANDARD, HALF_DOMAIN_REQUIRED_ENTRIES>>,
      <<LUT_STANDARD, HALF_DOMAIN_REQUIRED_ENTRIES + 1>>,
      <<LUT_INPUT_HALF_CODE, HALF_DOMAIN_REQUIRED_ENTRIES>> }

ComposeSources ==
    { <<LUT_STANDARD, 2>>, <<LUT_INPUT_HALF_CODE, HALF_DOMAIN_REQUIRED_ENTRIES>> }

InitCompose ==
    /\ \E a \in ComposeDomains, b \in ComposeSources :
          heap = [EmptyHeap EXCEPT
                     ![1] = NewLut(a[1], a[2], "TRANSFORM_DIR_FORWARD"),
                     ![2] = NewLut(b[1], b[2], "TRANSFORM_DIR_FORWARD")]
    /\ A = 1
    /\ B = 2
    /\ op = "construct"
    /\ tgt = 2
    /\ arg = <<>>
    /\ err = ""
    /\ ret = FALSE
    /\ edits = 0
    /\ streak = 0
    /\ calls = NoCalls
    /\ mutex = 0

NextCompose ==
    \/ \E t \in Targets :
          \/ \E v \in EditValues : SetValue(t, heap[t].length - 1, 0, v)
          \/ Scale(t, 2)
    \/ Finalize(A)
    \/ \E compFlag \in ComposeMethods : ComposeOp(TRUE, compFlag)
    \/ \E n \in 0..MaxChain : ComposeVecOp(n)

SpecCompose == InitCompose /\ [][NextCompose]_vars

-----------------------------------------------------------------------------
(* The fast forward LUT made from an inverse LUT *)

\* B = MakeFastLut1DFromInverse(heap[A], forGPU)
MakeFast(forGPU) ==
    /\ Live
    /\ A # 0 /\ B = 0
    /\ edits <= MaxEdits
    /\ ValidateError(heap[A]) = ""
    /\ \E r \in {MakeFastLut1DFromInverse(heap[A], forGPU)}, n \in {cloneAddress(A)} :
           /\ IF r.err # ""
              THEN heap' = [heap EXCEPT ![A] = r.src] /\ B' = B
              ELSE heap' = [heap EXCEPT ![A] = r.src, ![n] = r.lut] /\ B' = n
           /\ Did("makeFastLut1DFromInverse", A,
                  [forGPU |-> forGPU, chain |-> r.chain], r.err, FALSE)
    /\ edits' = MaxEdits + 1
    /\ UNCHANGED A

InitFast ==
    /\ \E hf \in {LUT_STANDARD, LUT_INPUT_HALF_CODE}, dir \in DirectionSet,
          depth \in BitDepthSet :
          heap = [EmptyHeap EXCEPT ![1] =
                     [NewLut(hf, IF IsInputHalfDomain(hf)
                                 THEN HALF_DOMAIN_REQUIRED_ENTRIES ELSE MaxLen, dir)
                      EXCEPT !.fileOutputBitDepth = depth]]
    /\ A = 1
    /\ B = 0
    /\ op = "construct"
    /\ tgt = 1
    /\ arg = <<>>
    /\ err = ""
    /\ ret = FALSE
    /\ edits = 0
    /\ streak = 0
    /\ calls = NoCalls
    /\ mutex = 0

NextFast ==
    \/ \E v \in EditValues : SetValue(A, heap[A].length - 1, 0, v)
    \/ Scale(A, 2)
    \/ SetInversionQuality(A, "LUT_INVERSION_EXACT")
    \/ Finalize(A)
    \/ \E forGPU \in BOOLEAN : MakeFast(forGPU)

SpecFast == InitFast /\ [][NextFast]_vars

-----------------------------------------------------------------------------
(* finalize() of a LUT that validate() may reject *)

NextFail ==
    \/ \E algo \in InterpolationSet : SetInterpolation(A, algo)
    \/ \E n \in 1..maxColorComponents : SetNumColorComponents(A, n)
    \/ \E c \in 0..2, v \in EditValues : SetValue(A, heap[A].length - 1, c, v)
    \/ Finalize(A)

SpecFail == InitPrep /\ [][NextFail]_vars

-----------------------------------------------------------------------------
(* Effective domain: an INVERSE LUT whose channels get plateaus, constant
   ends and NaN written into them before it is finalized *)

DomainValues == EditValues \cup {0}

\* rows written to: every row of a standard-domain LUT, the two rows the
\* direction is read from of a half-domain one
DomainRows(lut) ==
    IF IsInputHalfDomain(lut.halfFlags) THEN {0, oneRow}
    ELSE 0..(lut.length - 1)

InitDomain ==
    /\ \E hf \in {LUT_STANDARD, LUT_INPUT_HALF_CODE} :
         \E len \in (IF IsInputHalfDomain(hf)
                     THEN {HALF_DOMAIN_REQUIRED_ENTRIES} ELSE 2..MaxLen) :
            heap = [EmptyHeap EXCEPT ![1] = NewLut(hf, len, "TRANSFORM_DIR_INVERSE")]
    /\ A = 1
    /\ B = 0
    /\ op = "construct"
    /\ tgt = 1
    /\ arg = <<>>
    /\ err = ""
    /\ ret = FALSE
    /\ edits = 0
    /\ streak = 0
    /\ calls = NoCalls
    /\ mutex = 0

NextDomain ==
    \/ \E row \in DomainRows(heap[A]), c \in 0..2, v \in DomainValues :
          SetValue(A, row, c, v)
    \/ Finalize(A)

SpecDomain == InitDomain /\ [][NextDomain]_vars

-----------------------------------------------------------------------------
(* A LUT that is finalized, changed through its setters and copied *)

NextStale ==
    \/ Finalize(A)
    \/ Scale(A, 2)
    \/ \E algo \in {"INTERP_NEAREST", "INTERP_CUBIC"} : SetInterpolation(A, algo)
    \/ \E style \in InvQualitySet : SetInversionQuality(A, style)
    \/ \E algo \in HueAdjustSet : SetHueAdjust(A, algo)
    \/ \E b \in BOOLEAN : SetInputHalfDomain(A, b)
    \/ \E b \in BOOLEAN : SetOutputRawHalfs(A, b)
    \/ Clone
    \/ InverseOp

SpecStale == InitPrep /\ [][NextStale]_vars

-----------------------------------------------------------------------------
(* Two threads inside finalize() of the same standard-domain LUT. A step is
   one read or one write of a shared member; only the steps between Lock and
   Return are made under m_mutex. *)

\* the locals of a finalize() call that has just been entered
Entered ==
    [pc |-> "enter", c |-> 0, idx |-> 0, prevValue |-> 0, isIncreasing |-> FALSE,
     activeChannels |-> 0, x |-> 0, endDomain |-> 0, startDomain |-> 0,
     same |-> TRUE, digest |-> <<>>, e |-> ""]

At(t, pc) == calls[t].pc = pc

\* thread t moves on with the locals loc and leaves the LUT of A as lut
Step(t, loc, lut) ==
    /\ calls' = [calls EXCEPT ![t] = loc]
    /\ heap' = [heap EXCEPT ![A] = lut]
    /\ UNCHANGED <<A, B, op, tgt, arg, err, ret, edits, streak, mutex>>

\* where the loop over the active channels goes for channel c
ChannelLoop(loc, c) ==
    IF c < loc.activeChannels
    THEN [loc EXCEPT !.pc = "detect", !.c = c]
    ELSE [loc EXCEPT !.pc = "copy", !.c = 0]

\* finalize() is called
Call(t) ==
    /\ At(t, "idle")
    /\ Step(t, Entered, heap[A])

\* if (m_direction == TRANSFORM_DIR_INVERSE) initializeFromForward();
\* prepareArray() reads the active channel count
Enter(t) ==
    /\ At(t, "enter")
    /\ Step(t, IF heap[A].direction = "TRANSFORM_DIR_INVERSE"
               THEN ChannelLoop([calls[t] EXCEPT !.activeChannels = heap[A].numComp], 0)
               ELSE [calls[t] EXCEPT !.pc = "adjust"],
            heap[A])

\* values[lowInd] < values[highInd] is evaluated
DetectRead(t) ==
    /\ At(t, "detect")
    /\ Step(t, [calls[t] EXCEPT !.pc = "storeIncreasing",
                                !.isIncreasing = DetectIncreasing(heap[A], calls[t].c)],
            heap[A])

\* m_componentProperties[c].isIncreasing is assigned
DetectStore(t) ==
    /\ At(t, "storeIncreasing")
    /\ Step(t, [calls[t] EXCEPT !.pc = "loadIncreasing", !.isIncreasing = FALSE],
            [heap[A] EXCEPT !.props[calls[t].c].isIncreasing = calls[t].isIncreasing])

\* bool isIncreasing = m_componentProperties[c].isIncreasing;
\* float prevValue = values[c];
FlattenInit(t) ==
    /\ At(t, "loadIncreasing")
    /\ Step(t, [calls[t] EXCEPT !.pc = "flattenRead",
                                !.isIncreasing = heap[A].props[calls[t].c].isIncreasing,
                                !.prevValue = heap[A].values[calls[t].c],
                                !.idx = calls[t].c + maxColorComponents],
            heap[A])

\* the loop test and the read of values[idx]
FlattenRead(t) ==
    /\ At(t, "flattenRead")
    /\ Step(t, IF calls[t].idx < heap[A].length * maxColorComponents
               THEN [calls[t] EXCEPT !.pc = "flattenWrite",
                                     !.x = heap[A].values[calls[t].idx]]
               ELSE [calls[t] EXCEPT !.pc = "endInit", !.idx = 0, !.prevValue = 0,
                                     !.isIncreasing = FALSE],
            heap[A])

\* values[idx] = prevValue, or prevValue = values[idx]
FlattenWrite(t) ==
    /\ At(t, "flattenWrite")
    /\ LET loc == calls[t]
           next == [loc EXCEPT !.pc = "flattenRead", !.x = 0,
                               !.idx = loc.idx + maxColorComponents]
       IN  IF loc.isIncreasing # FGt(loc.x, loc.prevValue)
           THEN Step(t, next, [heap[A] EXCEPT !.values[loc.idx] = loc.prevValue])
           ELSE Step(t, [next EXCEPT !.prevValue = loc.x], heap[A])

\* endDomain = length - 1; endValue = values[endDomain * maxChannels + c];
EndInit(t) ==
    /\ At(t, "endInit")
    /\ Step(t, [calls[t] EXCEPT !.pc = "endScan",
                                !.endDomain = heap[A].length - 1,
                                !.x = heap[A].values[(heap[A].length - 1) * maxColorComponents
                                                     + calls[t].c]],
            heap[A])

\* while (endDomain > 0 && values[(endDomain - 1) * maxChannels + c] == endValue)
EndScan(t) ==
    /\ At(t, "endScan")
    /\ LET loc == calls[t]
       IN  Step(t, IF /\ loc.endDomain > 0
                      /\ FEq(heap[A].values[(loc.endDomain - 1) * maxColorComponents + loc.c],
                             loc.x)
                   THEN [loc EXCEPT !.endDomain = loc.endDomain - 1]
                   ELSE [loc EXCEPT !.pc = "startInit", !.x = 0],
                heap[A])

\* startDomain = 0; startValue = values[startDomain * maxChannels + c];
StartInit(t) ==
    /\ At(t, "startInit")
    /\ Step(t, [calls[t] EXCEPT !.pc = "startScan", !.startDomain = 0,
                                !.x = heap[A].values[calls[t].c]],
            heap[A])

\* while (startDomain < endDomain && values[(startDomain + 1) * maxChannels + c] == startValue)
StartScan(t) ==
    /\ At(t, "startScan")
    /\ LET loc == calls[t]
       IN  Step(t, IF /\ loc.startDomain < loc.endDomain
                      /\ FEq(heap[A].values[(loc.startDomain + 1) * maxColorComponents + loc.c],
                             loc.x)
                   THEN [loc EXCEPT !.startDomain = loc.startDomain + 1]
                   ELSE [loc EXCEPT !.pc = "storeDomain", !.x = 0],
                heap[A])

\* m_componentProperties[c].startDomain and .endDomain are assigned; ++c
StoreDomain(t) ==
    /\ At(t, "storeDomain")
    /\ LET loc == calls[t]
       IN  Step(t, ChannelLoop([loc EXCEPT !.startDomain = 0, !.endDomain = 0], loc.c + 1),
                [heap[A] EXCEPT !.props[loc.c].startDomain = loc.startDomain,
                                !.props[loc.c].endDomain = loc.endDomain])

\* if (activeChannels == 1) the properties of channel 0 go to channels 1 and 2
CopyProperties(t) ==
    /\ At(t, "copy")
    /\ Step(t, [calls[t] EXCEPT !.pc = "adjust", !.activeChannels = 0],
            IF calls[t].activeChannels = 1
            THEN [heap[A] EXCEPT !.props[1] = heap[A].props[0],
                                 !.props[2] = heap[A].props[0]]
            ELSE heap[A])

\* m_array.adjustColorComponentNumber() compares the channels of one row
AdjustRead(t) ==
    /\ At(t, "adjust")
    /\ LET loc == calls[t]
           r   == loc.idx
       IN  /\ r < heap[A].length
           /\ Step(t, [loc EXCEPT !.idx = r + 1,
                                  !.same = /\ loc.same
                                           /\ heap[A].values[r * maxColorComponents]
                                                 = heap[A].values[r * maxColorComponents + 1]
                                           /\ heap[A].values[r * maxColorComponents]
                                                 = heap[A].values[r * maxColorComponents + 2]],
                   heap[A])

\* m_array.adjustColorComponentNumber() sets the channel count
AdjustStore(t) ==
    /\ At(t, "adjust")
    /\ calls[t].idx >= heap[A].length
    /\ Step(t, [calls[t] EXCEPT !.pc = "lock", !.idx = 0, !.same = TRUE],
            IF heap[A].numComp = maxColorComponents /\ calls[t].same
            THEN [heap[A] EXCEPT !.numComp = 1] ELSE heap[A])

\* AutoMutex lock(m_mutex) that does not wait for the holder
LockAtOnce(t) ==
    /\ At(t, "lock")
    /\ calls' = [calls EXCEPT ![t].pc = "validate"]
    /\ mutex' = t
    /\ UNCHANGED <<heap, A, B, op, tgt, arg, err, ret, edits, streak>>

\* AutoMutex lock(m_mutex);
Lock(t) ==
    /\ At(t, "lock")
    /\ mutex = 0
    /\ calls' = [calls EXCEPT ![t].pc = "validate"]
    /\ mutex' = t
    /\ UNCHANGED <<heap, A, B, op, tgt, arg, err, ret, edits, streak>>

\* validate();
ValidateLocked(t) ==
    /\ At(t, "validate")
    /\ Step(t, IF ValidateError(heap[A]) # ""
               THEN [calls[t] EXCEPT !.pc = "return", !.e = ValidateError(heap[A])]
               ELSE [calls[t] EXCEPT !.pc = "digest"],
            heap[A])

\* md5_append reads one row of the value array
DigestRead(t) ==
    /\ At(t, "digest")
    /\ LET loc == calls[t]
           r   == loc.idx
       IN  /\ r < heap[A].length
           /\ Step(t, [loc EXCEPT !.idx = r + 1,
                                  !.digest = loc.digest \o
                                     [k \in 1..maxColorComponents |->
                                        heap[A].values[r * maxColorComponents + k - 1]]],
                   heap[A])

\* m_cacheID = cacheIDStream.str();
AssignCacheID(t) ==
    /\ At(t, "digest")
    /\ calls[t].idx >= heap[A].length
    /\ LET bytes == [i \in DOMAIN heap[A].values |-> calls[t].digest[i + 1]]
       IN  Step(t, [calls[t] EXCEPT !.pc = "return", !.idx = 0, !.digest = <<>>],
                [heap[A] EXCEPT !.cacheID = CacheID([heap[A] EXCEPT !.values = bytes])])

\* finalize() returns or throws: the mutex, if taken, is released
Return(t) ==
    /\ At(t, "return")
    /\ calls' = [calls EXCEPT ![t] = [pc |-> "done"]]
    /\ mutex' = 0
    /\ op' = "finalize"
    /\ tgt' = A
    /\ arg' = <<>>
    /\ err' = calls[t].e
    /\ ret' = FALSE
    /\ UNCHANGED <<heap, A, B, edits, streak>>

\* the cells of channel 0, or of every channel, that are written before the
\* two calls: a reversal, a plateau at either end, a decreasing channel
RaceEdits ==
    {<<r, v, all>> : r \in 0..(MaxLen - 1), v \in {0 - One, 0, PosInf}, all \in BOOLEAN}

\* a standard-domain INVERSE identity with the cell(s) of one row written; B
\* refers to a copy of it that no thread touches
InitRace ==
    /\ \E ed \in RaceEdits \cup {<<>>} :
         LET fresh == NewLut(LUT_STANDARD, MaxLen, "TRANSFORM_DIR_INVERSE")
             lut == IF ed = <<>> THEN fresh
                    ELSE [fresh EXCEPT !.values =
                            [i \in DOMAIN fresh.values |->
                               IF /\ i \div maxColorComponents = ed[1]
                                  /\ (ed[3] \/ i % maxColorComponents = 0)
                               THEN ed[2] ELSE fresh.values[i]]]
         IN  heap = [EmptyHeap EXCEPT ![1] = lut, ![2] = lut]
    /\ A = 1
    /\ B = 2
    /\ op = "construct"
    /\ tgt = 1
    /\ arg = <<>>
    /\ err = ""
    /\ ret = FALSE
    /\ edits = 0
    /\ streak = 0
    /\ calls = NoCalls
    /\ mutex = 0

NextRace ==
    \E t \in Threads :
        \/ Call(t)
        \/ Enter(t)
        \/ DetectRead(t)
        \/ DetectStore(t)
        \/ FlattenInit(t)
        \/ FlattenRead(t)
        \/ FlattenWrite(t)
        \/ EndInit(t)
        \/ EndScan(t)
        \/ StartInit(t)
        \/ StartScan(t)
        \/ StoreDomain(t)
        \/ CopyProperties(t)
        \/ AdjustRead(t)
        \/ AdjustStore(t)
        \/ Lock(t)
        \/ ValidateLocked(t)
        \/ DigestRead(t)
        \/ AssignCacheID(t)
        \/ Return(t)

SpecRace == InitRace /\ [][NextRace]_vars

-----------------------------------------------------------------------------
(* Properties of finalize() and prepareArray() *)

Inverse(lut) == lut.direction = "TRANSFORM_DIR_INVERSE"
Forward(lut) == lut.direction = "TRANSFORM_DIR_FORWARD"

Cell(lut, row, c) == lut.values[row * maxColorComponents + c]

NanFree(lut) == \A i \in DOMAIN lut.values : ~IsNan(lut.values[i])

\* channel c is weakly monotonic in direction inc over rows from..to
WeaklyMonotonic(lut, c, from, to, inc) ==
    \A r \in from..(to - 1) :
        IF inc THEN Cell(lut, r, c) <= Cell(lut, r + 1, c)
               ELSE Cell(lut, r, c) >= Cell(lut, r + 1, c)

\* C1: finalize() is idempotent: a finalize() that directly follows a
\* successful finalize() of the same LUT leaves the value array, the
\* component metadata and the cache id as the first call left them.
C1_FinalizeIdempotent ==
    [][ (op = "finalize" /\ err = "" /\ op' = "finalize" /\ tgt' = tgt)
        => /\ err' = ""
           /\ heap'[tgt].values = heap[tgt].values
           /\ heap'[tgt].props = heap[tgt].props
           /\ heap'[tgt].cacheID = heap[tgt].cacheID ]_vars

\* finalize() ran twice in a row on an edited INVERSE LUT that the first call
\* collapsed to one active channel
C1_Witness ==
    /\ streak = 2
    /\ Inverse(heap[tgt])
    /\ heap[tgt].numComp = 1
    /\ edits = MaxEdits

\* C2: after finalize() of an INVERSE standard-domain LUT with NaN-free
\* values, every active channel is weakly monotonic over all rows in its
\* detected direction.
C2_StandardMonotonic ==
    (/\ op = "finalize"
     /\ Inverse(heap[tgt])
     /\ ~IsInputHalfDomain(heap[tgt].halfFlags)
     /\ NanFree(heap[tgt]))
    => \A c \in 0..(heap[tgt].numComp - 1) :
          WeaklyMonotonic(heap[tgt], c, 0, heap[tgt].length - 1,
                          heap[tgt].props[c].isIncreasing)

\* an INVERSE standard-domain LUT was finalized whose second row had been
\* raised above the third: the reversal is flattened
C2_Witness ==
    /\ op = "finalize"
    /\ Inverse(heap[tgt])
    /\ ~IsInputHalfDomain(heap[tgt].halfFlags)
    /\ heap[tgt].length = 3
    /\ NanFree(heap[tgt])
    /\ heap[tgt].props[0].isIncreasing
    /\ Cell(heap[tgt], 1, 0) = PosInf
    /\ Cell(heap[tgt], 2, 0) = PosInf

\* the rows of the half domain that hold no NaN pattern are NaN-free
HalfRowsNanFree(lut) ==
    \A r \in (0..posInfRow) \cup (negZeroRow..negInfRow), c \in 0..2 :
        ~IsNan(Cell(lut, r, c))

\* C3: after finalize() of an INVERSE half-domain LUT with three active
\* channels, every channel is weakly monotonic in its detected direction over
\* rows 0..+infinity and in the opposite direction over rows -0..-infinity.
C3_HalfMonotonicAllChannels ==
    (/\ op = "finalize"
     /\ err = ""
     /\ Inverse(heap[tgt])
     /\ IsInputHalfDomain(heap[tgt].halfFlags)
     /\ heap[tgt].numComp = maxColorComponents
     /\ HalfRowsNanFree(heap[tgt]))
    => \A c \in 0..2 :
          /\ WeaklyMonotonic(heap[tgt], c, 0, posInfRow,
                             heap[tgt].props[c].isIncreasing)
          /\ WeaklyMonotonic(heap[tgt], c, negZeroRow, negInfRow,
                             ~heap[tgt].props[c].isIncreasing)

-----------------------------------------------------------------------------
(* Properties of construction and validation *)

\* the value an identity of n rows holds in row i
IdentityValue(halfFlags, i, n) ==
    IF IsInputHalfDomain(halfFlags) THEN HalfToFloat(i) ELSE MulDiv(i, One, n - 1)

\* C5: constructing a LUT succeeds exactly when 2 <= length <= 1048576, and
\* on success the array has that length and is filled as an identity.
C5_ConstructionBounds ==
    op = "construct" =>
        IF 2 <= arg.length /\ arg.length <= 1048576
        THEN /\ err = ""
             /\ A # 0
             /\ heap[A].length = arg.length
             /\ heap[A].values =
                  [i \in 0..(arg.length * 3 - 1) |->
                      IdentityValue(arg.halfFlags, i \div 3, arg.length)]
        ELSE /\ err # ""
             /\ A = 0

\* a LUT of the smallest length was constructed, with half-domain flags
C5_Witness ==
    /\ op = "construct"
    /\ err = ""
    /\ heap[A].length = 2
    /\ IsInputHalfDomain(heap[A].halfFlags)
    /\ heap[A].values = [i \in 0..5 |-> IF i < 3 THEN 0 ELSE HalfToFloat(1)]

\* the interpolations validate() rejects
RejectedInterpolation(interp) ==
    interp \in {"INTERP_CUBIC", "INTERP_TETRAHEDRAL", "INTERP_UNKNOWN"}
    \/ interp \notin {"INTERP_BEST", "INTERP_DEFAULT", "INTERP_LINEAR", "INTERP_NEAREST"}

C4_ValidateIff ==
    op = "validate" =>
        (err # "" <=>
            \/ RejectedInterpolation(heap[tgt].interpolation)
            \/ ArrayValidateError(heap[tgt]) # ""
            \/ (IsInputHalfDomain(heap[tgt].halfFlags)
                /\ heap[tgt].length # HALF_DOMAIN_REQUIRED_ENTRIES))

C4_HalfLengthAcceptedByConstructor ==
    (/\ op = "construct"
     /\ IsInputHalfDomain(arg.halfFlags)
     /\ arg.length \in {HALF_DOMAIN_REQUIRED_ENTRIES - 1, HALF_DOMAIN_REQUIRED_ENTRIES + 1})
    => (err = "" /\ A # 0 /\ ValidateError(heap[A]) # "")

\* C4: validate() fails if and only if the interpolation is CUBIC,
\* TETRAHEDRAL, UNKNOWN or unrecognised, or the value array fails its
\* structural check, or INPUT_HALF_CODE is set and the length is not the
\* half-domain size; a half-domain LUT one row short or long is constructed
\* and rejected only by validate(); validate() never modifies the LUT.
C4_Validate ==
    /\ [](C4_ValidateIff /\ C4_HalfLengthAcceptedByConstructor)
    /\ [][op' = "validate" => heap' = heap]_vars

\* validate() rejected a half-domain LUT one row longer than the half domain
\* whose interpolation and channel count are accepted
C4_Witness ==
    /\ op = "validate"
    /\ err # ""
    /\ IsInputHalfDomain(heap[tgt].halfFlags)
    /\ heap[tgt].length = HALF_DOMAIN_REQUIRED_ENTRIES + 1
    /\ heap[tgt].interpolation = "INTERP_DEFAULT"
    /\ heap[tgt].numComp = 3

\* C6 as stated: hasExtendedRange() is false for every freshly constructed
\* identity LUT, standard or half domain.
C6_FreshNeverExtended ==
    (op = "hasExtendedRange" /\ edits = 0) => ret = FALSE

\* C6: hasExtendedRange() is false for every freshly constructed
\* standard-domain identity LUT, and true for a freshly constructed
\* half-domain identity of the half-domain size.
C6_FreshExtendedIffHalf ==
    (op = "hasExtendedRange" /\ edits = 0) =>
        /\ ~IsInputHalfDomain(heap[tgt].halfFlags) => ret = FALSE
        /\ (/\ IsInputHalfDomain(heap[tgt].halfFlags)
            /\ heap[tgt].length = HALF_DOMAIN_REQUIRED_ENTRIES) => ret = TRUE

\* hasExtendedRange() answered true for a fresh half-domain identity of the
\* half-domain size, whose row of 1.0 is followed by larger values
C6_Witness ==
    /\ op = "hasExtendedRange"
    /\ edits = 0
    /\ IsInputHalfDomain(heap[tgt].halfFlags)
    /\ heap[tgt].length = HALF_DOMAIN_REQUIRED_ENTRIES
    /\ Cell(heap[tgt], oneRow, 0) = One
    /\ FGt(Cell(heap[tgt], oneRow + 1, 0), One)
    /\ ret = TRUE

-----------------------------------------------------------------------------
(* Properties of the cache id, clone(), inverse() and Compose() *)

\* a LUT in the state a successful finalize() leaves it in
Finalized(lut) ==
    /\ lut.cacheID # <<>>
    /\ ~FinalizeOutOfBounds(lut)
    /\ finalize(lut) = [lut |-> lut, err |-> ""]

FlagsDiffer(a, b) ==
    \/ a.direction # b.direction
    \/ a.interpolation # b.interpolation
    \/ a.halfFlags # b.halfFlags
    \/ a.hueAdjust # b.hueAdjust

BothFinalizedSameArray ==
    /\ A # 0 /\ B # 0 /\ A # B
    /\ Finalized(heap[A]) /\ Finalized(heap[B])
    /\ heap[A].length = heap[B].length
    /\ heap[A].values = heap[B].values

\* C7: two finalized LUTs with identical value arrays that differ in
\* direction, interpolation, half-flag set or hue adjust have different
\* cache ids.
C7_FlagsSeparateCacheIds ==
    (BothFinalizedSameArray /\ FlagsDiffer(heap[A], heap[B]))
        => heap[A].cacheID # heap[B].cacheID

MutatorOps == {"setValue", "scale", "setInterpolation", "setInversionQuality",
               "setHueAdjust", "setInputHalfDomain", "setOutputRawHalfs",
               "finalize", "compose"}

C8_CloneEquals ==
    op = "clone" =>
        /\ LutEquals(heap[B], heap[A])
        /\ heap[B].direction = heap[A].direction
        /\ heap[B].halfFlags = heap[A].halfFlags
        /\ heap[B].hueAdjust = heap[A].hueAdjust
        /\ heap[B].length = heap[A].length
        /\ heap[B].values = heap[A].values
        /\ heap[B].props = heap[A].props
        /\ heap[B].cacheID = heap[A].cacheID

C8_OtherUntouched ==
    (A # 0 /\ B # 0 /\ op' \in MutatorOps) =>
        /\ tgt' = B' => (A' = A /\ heap'[A] = heap[A])
        /\ tgt' = A' => (B' = B /\ heap'[B] = heap[B])

\* C8: clone() returns a LUT equal to the original, with the component
\* metadata and the cache id copied, and a mutation, finalize() or Compose()
\* applied through one of the two handles leaves every attribute of the
\* object behind the other handle unchanged.
C8_CloneIndependent ==
    /\ []C8_CloneEquals
    /\ [][C8_OtherUntouched]_vars

\* the clone has been scaled and no longer equals the original, which still
\* holds the identity it was constructed with
C8_Witness ==
    /\ B # 0
    /\ op = "scale" /\ tgt = B /\ arg = 2
    /\ heap[B].direction = heap[A].direction
    /\ ~LutEquals(heap[B], heap[A])
    /\ heap[A].values = Fill(heap[A].halfFlags, heap[A].length)

OppositeAndSame(a, b) ==
    /\ \/ (Forward(a) /\ Inverse(b))
       \/ (Inverse(a) /\ Forward(b))
    /\ a.halfFlags = b.halfFlags
    /\ a.hueAdjust = b.hueAdjust
    /\ a.length = b.length /\ a.numComp = b.numComp /\ a.values = b.values

C9_IsInverseIff ==
    /\ op = "inverse" => (isInverse(heap[A], heap[B]) /\ isInverse(heap[B], heap[A]))
    /\ op = "isInverse" =>
          /\ ret = OppositeAndSame(heap[tgt], heap[arg])
          /\ ret = isInverse(heap[arg], heap[tgt])

\* C9: L.isInverse(L.inverse()) is true; isInverse(A, B) is true exactly
\* when one is FORWARD and the other INVERSE with identical half flags, hue
\* adjust and value arrays, so it is symmetric; inverse() does not modify
\* the LUT it is called on.
C9_Inverse ==
    /\ []C9_IsInverseIff
    /\ [][op' = "inverse" => (A' = A /\ heap'[A] = heap[A])]_vars

\* isInverse() answered true when a forward LUT whose last row had been
\* edited or scaled was asked about the inverse taken of it afterwards
C9_Witness ==
    /\ op = "isInverse" /\ ret = TRUE
    /\ tgt = A /\ arg = B
    /\ Forward(heap[A]) /\ Inverse(heap[B])
    /\ edits = MaxEdits
    /\ heap[A].values # Fill(heap[A].halfFlags, heap[A].length)

C10_MayComposeIff ==
    op = "mayCompose" =>
        (ret = (/\ Forward(heap[tgt]) /\ Forward(heap[arg])
                /\ heap[tgt].hueAdjust = "HUE_NONE"
                /\ heap[arg].hueAdjust = "HUE_NONE"))

C10_ComposeSucceeds ==
    (/\ op' = "compose"
     /\ arg'.method = "COMPOSE_RESAMPLE_NO"
     /\ mayCompose(heap[tgt'], heap[arg'.source]))
    => /\ err' = ""
       /\ Forward(heap'[tgt'])
       /\ heap'[tgt'].hueAdjust = heap[arg'.source].hueAdjust
       /\ heap'[tgt'].hueAdjust = "HUE_NONE"

\* C10: mayCompose(A, B) is true iff both are FORWARD with hue adjust NONE,
\* and then Compose(A, B, COMPOSE_RESAMPLE_NO) raises nothing and leaves A
\* FORWARD with B's hue adjust, NONE.
C10_MayCompose ==
    /\ []C10_MayComposeIff
    /\ [][C10_ComposeSucceeds]_vars

\* Compose(A, B, COMPOSE_RESAMPLE_NO) returned with A holding B's scaled
\* curve sampled on A's domain
C10_Witness ==
    /\ op = "compose" /\ err = ""
    /\ arg.method = "COMPOSE_RESAMPLE_NO"
    /\ tgt = A
    /\ mayCompose(heap[A], heap[B])
    /\ heap[B].values # Fill(heap[B].halfFlags, heap[B].length)
    /\ heap[A].values # Fill(heap[A].halfFlags, heap[A].length)

-----------------------------------------------------------------------------
(* Properties of Compose() and ComposeVec() *)

\* Compose() replaced the object behind A in this step
Replaced == A' # A

C11_DomainSelection ==
    (op' = "compose" /\ tgt' = A' /\ ValidateError(heap[A]) = "") =>
        LET a      == heap[A]
            res    == heap'[A']
            method == arg'.method
        IN  /\ Replaced <=>
                  /\ ~IsInputHalfDomain(a.halfFlags)
                  /\ \/ method = "COMPOSE_RESAMPLE_HD"
                     \/ (method = "COMPOSE_RESAMPLE_BIG"
                         /\ a.length < HALF_DOMAIN_REQUIRED_ENTRIES)
            /\ Replaced =>
                  /\ res.length = HALF_DOMAIN_REQUIRED_ENTRIES
                  /\ IsInputHalfDomain(res.halfFlags) <=> method = "COMPOSE_RESAMPLE_HD"
            /\ ~Replaced =>
                  /\ res.length = a.length
                  /\ res.halfFlags = a.halfFlags
            /\ method = "COMPOSE_RESAMPLE_HD" =>
                  /\ IsInputHalfDomain(res.halfFlags)
                  /\ res.length = HALF_DOMAIN_REQUIRED_ENTRIES
            /\ method = "COMPOSE_RESAMPLE_BIG" =>
                  res.length >= HALF_DOMAIN_REQUIRED_ENTRIES

\* C11: Compose(A, B, method) with a valid A replaces A by a fresh identity
\* exactly when A is not half domain and the method is COMPOSE_RESAMPLE_HD,
\* or COMPOSE_RESAMPLE_BIG with A shorter than the half-domain size; the
\* replacement has the half-domain size and is half domain iff the method is
\* COMPOSE_RESAMPLE_HD; otherwise the result keeps A's length and half flags.
C11_ComposeDomain == [][C11_DomainSelection]_vars

\* COMPOSE_RESAMPLE_BIG replaced a short standard-domain A, whose last row
\* had been edited, by a standard-domain LUT of the half-domain size
C11_Witness ==
    /\ op = "compose" /\ err = ""
    /\ arg.method = "COMPOSE_RESAMPLE_BIG"
    /\ A # 1
    /\ Len(arg.chain) = 2
    /\ arg.chain[1].length = MaxLen
    /\ arg.chain[1].values # Fill(LUT_STANDARD, MaxLen)
    /\ heap[A].length = HALF_DOMAIN_REQUIRED_ENTRIES
    /\ ~IsInputHalfDomain(heap[A].halfFlags)

C12_ChainOrder ==
    (op' = "compose" /\ tgt' = A') =>
        LET chain == arg'.chain
        IN  /\ Len(chain) >= 1
            /\ chain[Len(chain)] = clone(heap[B])
            /\ Replaced => chain = <<heap[A], clone(heap[B])>>
            /\ ~Replaced => chain = <<clone(heap[B])>>

\* C12: the chain Compose(A, B, method) hands to ComposeVec() is the original
\* A followed by the clone of B when A is replaced by a finer identity, and
\* the clone of B alone otherwise; it is never empty and B comes last, once.
C12_Chain == [][C12_ChainOrder]_vars

\* COMPOSE_RESAMPLE_HD handed over the standard-domain A followed by a B whose
\* last row had been edited
C12_Witness ==
    /\ op = "compose" /\ err = ""
    /\ arg.method = "COMPOSE_RESAMPLE_HD"
    /\ Len(arg.chain) = 2
    /\ ~IsInputHalfDomain(arg.chain[1].halfFlags)
    /\ arg.chain[2] = heap[B]
    /\ arg.chain[1] # arg.chain[2]
    /\ heap[B].values # Fill(heap[B].halfFlags, heap[B].length)
    /\ IsInputHalfDomain(heap[A].halfFlags)

C13_EmptyChain ==
    (op' = "composeVec" /\ arg' = <<>>) =>
        /\ err' = "There is nothing to compose the 1D LUT with"
        /\ A' = A
        /\ heap' = heap

\* C13: ComposeVec(A, chain) with an empty chain throws and leaves A as it
\* was: length, channel count and values are not touched.
C13_EmptyChainRejected == [][C13_EmptyChain]_vars

\* ComposeVec() rejected an empty chain for an A that finalize() had reduced
\* to one active channel
C13_Witness ==
    /\ op = "composeVec" /\ arg = <<>>
    /\ err # ""
    /\ heap[A].numComp = 1
    /\ heap[A].cacheID # <<>>

-----------------------------------------------------------------------------
(* Properties of MakeFastLut1DFromInverse() *)

\* the half flags and the length the claimed priority rule gives
FastDomainRule(lut, forGPU) ==
    LET depth == lut.fileOutputBitDepth
    IN  IF hasExtendedRange(lut)
        THEN <<TRUE, HALF_DOMAIN_REQUIRED_ENTRIES>>
        ELSE IF forGPU /\ depth # "BIT_DEPTH_UINT16" THEN <<FALSE, Pow2(Uint12Bits)>>
        ELSE IF depth \in {"BIT_DEPTH_UNKNOWN", "BIT_DEPTH_UINT14",
                           "BIT_DEPTH_UINT32", "BIT_DEPTH_UINT12"}
             THEN <<FALSE, Pow2(Uint12Bits)>>
        ELSE IF depth = "BIT_DEPTH_UINT8" THEN <<FALSE, Pow2(Uint8Bits)>>
        ELSE IF depth = "BIT_DEPTH_UINT10" THEN <<FALSE, Pow2(Uint10Bits)>>
        ELSE IF depth = "BIT_DEPTH_UINT16" THEN <<FALSE, Pow2(Uint16Bits)>>
        ELSE <<TRUE, HALF_DOMAIN_REQUIRED_ENTRIES>>

C14_FastDomainStep ==
    op' = "makeFastLut1DFromInverse" =>
        IF Inverse(heap[A])
        THEN /\ err' = ""
             /\ B' # 0
             /\ Forward(heap'[B'])
             /\ <<IsInputHalfDomain(heap'[B'].halfFlags), heap'[B'].length>>
                   = FastDomainRule(heap[A], arg'.forGPU)
        ELSE /\ err' = "MakeFastLut1DFromInverse expects an inverse 1D LUT"
             /\ B' = 0

\* C14: MakeFastLut1DFromInverse on an INVERSE LUT returns a FORWARD LUT
\* that is half domain of the half-domain size when the source has extended
\* range, else standard with the 12-bit size (4096) for the GPU unless the
\* depth is UINT16, else the 12-bit size for UNKNOWN, UINT14, UINT32 and
\* UINT12, the 8-bit size (256) for UINT8, the 10-bit size (1024) for UINT10,
\* the 16-bit size (65536) for UINT16 and half domain for F16 and F32; it
\* raises no bit-depth exception, and it throws for a FORWARD LUT.
C14_FastDomain == [][C14_FastDomainStep]_vars

\* for the GPU, an F16 source within [0, 1] that had been finalized got a
\* standard domain of the 12-bit size
C14_Witness ==
    /\ op = "makeFastLut1DFromInverse" /\ err = ""
    /\ arg.forGPU
    /\ heap[A].fileOutputBitDepth = "BIT_DEPTH_F16"
    /\ heap[A].cacheID # <<>>
    /\ ~hasExtendedRange(heap[A])
    /\ heap[B].length = Pow2(Uint12Bits)
    /\ ~IsInputHalfDomain(heap[B].halfFlags)

C15_StyleGuardStep ==
    op' = "makeFastLut1DFromInverse" =>
        /\ A' = A
        /\ heap'[A] = heap[A]
        /\ err' = "" =>
              /\ Len(arg'.chain) = 1
              /\ arg'.chain[1] = [heap[A] EXCEPT !.invQuality = "LUT_INVERSION_EXACT"]

\* C15: in MakeFastLut1DFromInverse the clone of the source placed in the
\* evaluator chain has inversion quality EXACT, and when the call returns or
\* throws the source has the inversion quality it had before and every other
\* attribute unchanged.
C15_StyleGuard == [][C15_StyleGuardStep]_vars

\* a finalized source with inversion quality FAST was composed as EXACT and
\* is FAST again after the call
C15_Witness ==
    /\ op = "makeFastLut1DFromInverse" /\ err = ""
    /\ heap[A].invQuality = "LUT_INVERSION_FAST"
    /\ heap[A].cacheID # <<>>
    /\ arg.chain[1].invQuality = "LUT_INVERSION_EXACT"
    /\ B # 0

-----------------------------------------------------------------------------
(* Properties of a finalize() that throws *)

FailedFinalize == op' = "finalize" /\ err' # "" /\ err' # OutOfBounds

C16_FailedFinalizeStep ==
    FailedFinalize =>
        LET before == heap[tgt']
            after  == heap'[tgt']
        IN  /\ after.cacheID = before.cacheID
            /\ after.direction = before.direction
            /\ after.interpolation = before.interpolation
            /\ after.halfFlags = before.halfFlags
            /\ after.hueAdjust = before.hueAdjust
            /\ after.invQuality = before.invQuality
            /\ after.length = before.length
            /\ after.numComp = before.numComp
            /\ after.props = before.props
            /\ Forward(before) => after.values = before.values

\* C16: when finalize() throws, cache id, direction, interpolation, half
\* flags, hue adjust, inversion quality, channel count and component metadata
\* have their values of before the call, and so has the value array of a
\* FORWARD LUT.
C16_FailedFinalizeKeeps == [][C16_FailedFinalizeStep]_vars

-----------------------------------------------------------------------------
(* Properties of the component metadata prepareArray() computes *)

\* a successful finalize() of an INVERSE LUT has just returned
Prepared == op = "finalize" /\ err = "" /\ Inverse(heap[tgt])

\* C17: after preparation of a half-domain INVERSE LUT every channel has
\* 0 <= startDomain <= endDomain <= 31743 (the largest finite half) and
\* 32768 <= negStartDomain <= negEndDomain <= 64511; a fresh half-domain
\* identity gets exactly 0, 31743, 32768 and 64511 in each channel.
C17_HalfEffectiveDomain ==
    (Prepared /\ IsInputHalfDomain(heap[tgt].halfFlags)) =>
        \A c \in 0..2 :
            LET p == heap[tgt].props[c]
            IN  /\ 0 <= p.startDomain /\ p.startDomain <= p.endDomain
                /\ p.endDomain <= posMaxRow
                /\ negZeroRow <= p.negStartDomain
                /\ p.negStartDomain <= p.negEndDomain
                /\ p.negEndDomain <= negMaxRow
                /\ edits = 0 =>
                      /\ p.startDomain = 0 /\ p.endDomain = posMaxRow
                      /\ p.negStartDomain = negZeroRow /\ p.negEndDomain = negMaxRow

\* a half-domain LUT whose largest finite row had been lowered in channel 0
\* was prepared: channel 0 ends on a plateau, the other channels do not
C17_Witness ==
    /\ Prepared /\ IsInputHalfDomain(heap[tgt].halfFlags)
    /\ edits = MaxEdits
    /\ heap[tgt].props[0].endDomain < posMaxRow
    /\ heap[tgt].props[1].endDomain = posMaxRow
    /\ heap[tgt].props[0].negEndDomain = negMaxRow

\* the running extremum of rows 0..i of channel c of a value array: the
\* largest of them when inc, the smallest otherwise; a NaN among them is
\* passed over, as fmax() and fmin() do
RECURSIVE RunningExtremum(_, _, _, _)
RunningExtremum(values, c, i, inc) ==
    IF i = 0 THEN values[c]
    ELSE LET p == RunningExtremum(values, c, i - 1, inc)
             v == values[i * maxColorComponents + c]
         IN  IF IsNan(p) THEN v
             ELSE IF IsNan(v) THEN p
             ELSE IF inc THEN (IF v > p THEN v ELSE p)
                         ELSE (IF v < p THEN v ELSE p)

\* channel c of a value array of len rows holds no NaN
ChannelNanFree(values, c, len) ==
    \A r \in 0..(len - 1) : ~IsNan(values[r * maxColorComponents + c])

\* a finalize() step prepares a standard-domain INVERSE LUT and leaves in
\* every row of every active channel that passes the filter the running
\* extremum of the rows the channel had before the step
FlattenStep(filter(_, _, _)) ==
    (/\ op' = "finalize" /\ err' = ""
     /\ Inverse(heap'[tgt'])
     /\ ~IsInputHalfDomain(heap'[tgt'].halfFlags))
    => LET before == heap[tgt']
           after  == heap'[tgt']
       IN  \A c \in 0..(before.numComp - 1) :
              filter(before.values, c, before.length) =>
                 \A r \in 0..(before.length - 1) :
                    Cell(after, r, c) =
                       RunningExtremum(before.values, c, r,
                                       after.props[c].isIncreasing)

AnyChannel(values, c, len) == TRUE

\* C18 as stated: after preparation of a standard-domain LUT, row i of a
\* channel holds the maximum of the original rows 0..i when the channel is
\* detected increasing and the minimum otherwise, whatever the values are.
C18_RunningExtremum == [][FlattenStep(AnyChannel)]_vars

\* C18: after preparation of a standard-domain LUT, row i of a channel that
\* held no NaN holds the maximum of the original rows 0..i when the channel
\* is detected increasing and the minimum otherwise; so row 0 is never
\* modified and a row that respects the direction keeps its value.
C18_RunningExtremumNanFree == [][FlattenStep(ChannelNanFree)]_vars

\* a standard-domain identity whose middle row had been lowered below row 0
\* in channel 0 was prepared: the row is raised to the value of row 0
C18_Witness ==
    /\ Prepared /\ ~IsInputHalfDomain(heap[tgt].halfFlags)
    /\ heap[tgt].length = 3
    /\ edits = MaxEdits
    /\ heap[tgt].props[0].isIncreasing
    /\ Cell(heap[tgt], 0, 0) = 0
    /\ Cell(heap[tgt], 1, 0) = 0
    /\ Cell(heap[tgt], 2, 0) = One

\* the comparison of the two rows the direction is read from: row 0 and the
\* last row, or row 0 and the row of 1.0 for a half domain
EndsIncrease(lut, c) ==
    LET high == IF IsInputHalfDomain(lut.halfFlags) THEN oneRow
                ELSE lut.length - 1
    IN  FLt(Cell(lut, 0, c), Cell(lut, high, c))

C19_DetectionStep ==
    (op' = "finalize" /\ err' = "" /\ Inverse(heap'[tgt']))
    => LET before == heap[tgt']
           after  == heap'[tgt']
       IN  \A c \in 0..(before.numComp - 1) :
              /\ after.props[c].isIncreasing = EndsIncrease(before, c)
              /\ after.props[c].isIncreasing = EndsIncrease(after, c)

\* C19: preparation classifies a channel as increasing iff its value in row
\* 0 is strictly below its value in the last row (standard domain) or in the
\* row of 1.0 (half domain), so constant and decreasing channels are
\* non-increasing; the same comparison on the flattened values gives the
\* same answer.
C19_DirectionDetection == [][C19_DetectionStep]_vars

\* a standard-domain LUT whose last row had been lowered below row 0 in
\* channel 0 was prepared: channel 0 is non-increasing, channel 1 increasing
C19_Witness ==
    /\ Prepared /\ ~IsInputHalfDomain(heap[tgt].halfFlags)
    /\ edits = MaxEdits
    /\ Cell(heap[tgt], heap[tgt].length - 1, 0) = 0 - One
    /\ ~heap[tgt].props[0].isIncreasing
    /\ heap[tgt].props[1].isIncreasing

\* every row of channel c equals row 0
ConstantChannel(lut, c) ==
    \A r \in 0..(lut.length - 1) : FEq(Cell(lut, r, c), Cell(lut, 0, c))

\* C20: after preparation of a standard-domain LUT every active channel has
\* 0 <= startDomain <= endDomain <= length - 1, rows 0..startDomain hold the
\* value of row 0 and rows endDomain..length-1 the value of the last row;
\* when startDomain < endDomain the row after startDomain and the row before
\* endDomain differ from them; startDomain = endDomain exactly for a
\* constant channel, and both are 0 then.
C20_StandardEffectiveDomain ==
    (Prepared /\ ~IsInputHalfDomain(heap[tgt].halfFlags)) =>
        \A c \in 0..(heap[tgt].numComp - 1) :
            LET lut  == heap[tgt]
                p    == lut.props[c]
                last == lut.length - 1
            IN  /\ 0 <= p.startDomain /\ p.startDomain <= p.endDomain
                /\ p.endDomain <= last
                /\ \A r \in 0..p.startDomain : Cell(lut, r, c) = Cell(lut, 0, c)
                /\ \A r \in p.endDomain..last : Cell(lut, r, c) = Cell(lut, last, c)
                /\ p.startDomain < p.endDomain =>
                      /\ ~FEq(Cell(lut, p.startDomain + 1, c), Cell(lut, p.startDomain, c))
                      /\ ~FEq(Cell(lut, p.endDomain - 1, c), Cell(lut, p.endDomain, c))
                /\ (p.startDomain = p.endDomain) = ConstantChannel(lut, c)
                /\ ConstantChannel(lut, c) => p.startDomain = 0 /\ p.endDomain = 0

\* a standard-domain LUT of three rows whose last row had been set to 0 in
\* channel 0 was prepared: channel 0 is flattened to a constant and has the
\* domain 0..0, channel 1 keeps the whole domain
C20_Witness ==
    /\ Prepared /\ ~IsInputHalfDomain(heap[tgt].halfFlags)
    /\ heap[tgt].length = 3
    /\ heap[tgt].numComp = 3
    /\ ConstantChannel(heap[tgt], 0)
    /\ heap[tgt].props[0].startDomain = 0
    /\ heap[tgt].props[0].endDomain = 0
    /\ heap[tgt].props[1].startDomain = 0
    /\ heap[tgt].props[1].endDomain = 2

-----------------------------------------------------------------------------
(* Properties of ComposeVec() and Compose() on the target LUT *)

\* the value the first n ops of a chain give for x in channel c, the n-th op
\* being applied to what the ops before it give
RECURSIVE ApplyInOrder(_, _, _, _)
ApplyInOrder(ops, n, c, x) ==
    IF n = 0 THEN x
    ELSE EvalOp(ops[n], c, ApplyInOrder(ops, n - 1, c, x))

C21_ComposeVecStep ==
    (op' = "composeVec" /\ Len(arg') >= 1) =>
        LET before == heap[A]
            after  == heap'[A]
        IN  /\ err' = ""
            /\ after.length = before.length
            /\ after.numComp = 3
            /\ \A r \in 0..(before.length - 1), c \in 0..2 :
                  Cell(after, r, c) = ApplyInOrder(arg', Len(arg'), c, Cell(before, r, c))
            /\ after.direction = before.direction
            /\ after.halfFlags = before.halfFlags
            /\ after.interpolation = before.interpolation
            /\ after.hueAdjust = before.hueAdjust

\* C21: ComposeVec(A, chain) with a chain of one or more ops keeps the length
\* of A, leaves A with 3 active channels and every row replaced by what the
\* ops of the chain, applied in chain order, give for it; direction, half
\* flags, interpolation and hue adjust of A stay as they were.
C21_ComposeVec == [][C21_ComposeVecStep]_vars

\* ComposeVec() ran a chain of two ops, B and then a copy of A as it was,
\* whose result depends on the order of the two
C21_Witness ==
    /\ op = "composeVec" /\ err = ""
    /\ Len(arg) = 2
    /\ \E r \in 0..(heap[A].length - 1) :
          Cell(heap[A], r, 0) # EvalOp(arg[1], 0, EvalOp(arg[2], 0, Cell(arg[2], r, 0)))

C23_ComposeStep ==
    (op' = "compose" /\ err' = "") =>
        LET target == IF arg'.source = B THEN A ELSE B
        IN  heap'[tgt'].interpolation = heap[target].interpolation

\* C23: Compose(A, B, method) leaves A with the interpolation it had before
\* the call, for every method, also when A is replaced by a finer identity.
C23_ComposeKeepsInterpolation == [][C23_ComposeStep]_vars

\* C24: two finalized LUTs that equals() finds equal have the same cache id;
\* the inversion quality changes neither the answer of equals() nor the
\* cache id finalize() assembles.
C24_EqualsSharesCacheId ==
    (A # 0 /\ B # 0 /\ A # B) =>
        /\ (Finalized(heap[A]) /\ Finalized(heap[B]) /\ LutEquals(heap[A], heap[B]))
              => heap[A].cacheID = heap[B].cacheID
        /\ \A style \in {"LUT_INVERSION_EXACT", "LUT_INVERSION_FAST"} :
              /\ LutEquals(setInversionQuality(heap[A], style), heap[B])
                    = LutEquals(heap[A], heap[B])
              /\ CacheID(setInversionQuality(heap[A], style)) = CacheID(heap[A])

SetterOps == {"scale", "setInterpolation", "setInversionQuality", "setHueAdjust",
              "setInputHalfDomain", "setOutputRawHalfs"}

C25_CacheIdStep ==
    /\ op' \in SetterOps => heap'[tgt'].cacheID = heap[tgt'].cacheID
    /\ op' \in {"clone", "inverse"} =>
          /\ heap'[B'].cacheID = heap[A].cacheID
          /\ heap'[A].cacheID = heap[A].cacheID
    /\ \A i \in ObjIds :
          (heap[i] # NoObj /\ heap'[i] # NoObj /\ heap'[i].cacheID # heap[i].cacheID)
             => (op' = "finalize" /\ err' = "" /\ tgt' = i)

\* C25: the cache id of a LUT changes only in a successful finalize() of it:
\* scale() and the setters of interpolation, inversion quality, hue adjust
\* and the two half flags leave it as it was, and clone() and inverse() hand
\* it to the new LUT as it is, although inverse() flips the direction.
C25_CacheIdOnlyByFinalize == [][C25_CacheIdStep]_vars

\* inverse() of a finalized LUT made a LUT whose cache id names the
\* direction of the LUT it was made from
C25_Witness ==
    /\ op = "inverse" /\ B # 0
    /\ heap[B].cacheID # <<>>
    /\ heap[B].cacheID = heap[A].cacheID
    /\ heap[B].direction # heap[A].direction
    /\ heap[A].cacheID = CacheID(heap[A])
    /\ heap[B].cacheID # CacheID(heap[B])

-----------------------------------------------------------------------------
(* Properties of concurrent finalize() calls *)

\* thread t is between taking and releasing m_mutex
InLockedSection(t) == calls[t].pc \in {"validate", "digest", "return"}

BothReturned == \A t \in Threads : calls[t].pc = "done"

\* C22: once two concurrent finalize() calls on the same valid INVERSE LUT
\* with NaN-free values have returned, value array, component metadata and
\* cache id are those one finalize() alone produces from the LUT as it was,
\* and the digest in the cache id is that of the final array; the two calls
\* are never both between taking and releasing the mutex.
C22_ConcurrentFinalize ==
    /\ ~(InLockedSection(1) /\ InLockedSection(2))
    /\ BothReturned =>
          LET alone == finalize(heap[B]).lut
          IN  /\ err = ""
              /\ heap[A].values = alone.values
              /\ heap[A].props = alone.props
              /\ heap[A].cacheID = alone.cacheID
              /\ heap[A].cacheID = CacheID(heap[A])

\* both calls have returned from a LUT that had a reversal in channel 0: the
\* array differs from the one the calls started from
C22_Witness ==
    /\ BothReturned
    /\ heap[A].values # heap[B].values
    /\ heap[A].numComp = 3
    /\ heap[A].cacheID # <<>>

-----------------------------------------------------------------------------
(* Properties of finalize() on a FORWARD LUT *)

\* the three channels hold the same value in every row
ChannelsIdentical(lut) ==
    \A r \in 0..(lut.length - 1) :
        /\ Cell(lut, r, 0) = Cell(lut, r, 1)
        /\ Cell(lut, r, 0) = Cell(lut, r, 2)

C26_ForwardFinalizeStep ==
    (op' = "finalize" /\ Forward(heap[tgt'])) =>
        LET before == heap[tgt']
            after  == heap'[tgt']
        IN  /\ after.values = before.values
            /\ after.length = before.length
            /\ after.halfFlags = before.halfFlags
            /\ after.interpolation = before.interpolation
            /\ after.hueAdjust = before.hueAdjust
            /\ after.direction = before.direction
            /\ after.props = before.props
            /\ after.invQuality = before.invQuality
            /\ after.fileOutputBitDepth = before.fileOutputBitDepth
            /\ after.numComp # before.numComp =>
                  /\ before.numComp = maxColorComponents
                  /\ after.numComp = 1
                  /\ ChannelsIdentical(before)
            /\ after.cacheID # before.cacheID =>
                  /\ err' = ""
                  /\ after.cacheID = CacheID(after)

\* C26: finalize() of a FORWARD LUT leaves the stored values, length, half
\* flags, interpolation, hue adjust, direction and component metadata (and
\* inversion quality and file bit depth) as they were; the channel count
\* changes only from 3 to 1 and only when the three channels are identical,
\* and the cache id changes only to the id of the object finalize() leaves.
C26_ForwardFinalizeFrame == [][C26_ForwardFinalizeStep]_vars

\* a FORWARD LUT whose last sample is below the one before it has been
\* finalized: the reversal, which preparation would have flattened, is still
\* stored, the metadata is still the default and the cache id is set
C26_Witness ==
    /\ op = "finalize" /\ err = ""
    /\ Forward(heap[tgt])
    /\ heap[tgt].cacheID = CacheID(heap[tgt])
    /\ heap[tgt].props = [c \in 0..2 |-> DefaultProps]
    /\ prepareArray(heap[tgt]).values # heap[tgt].values


=============================================================================
